---- MODULE Spec2Model ----
(***************************************************************************)
(* Annotation interaction engine of the document editor.                   *)
(*                                                                         *)
(*   useAnnotations   (hooks/use-annotations.ts)   the annotation store    *)
(*   AnnotationLayer  (components/annotation-layer.tsx)  pointer handlers  *)
(*   PdfViewer        (components/pdf-viewer.tsx)  zoom, page, pan         *)
(*   PdfEditor        (the editor page)            the wiring of the props *)
(*                                                                         *)
(* Numbers are integers.  The zoom factor z is kept as zoom4 = 4 * z (the  *)
(* zoom buttons step by 0.25), and a pointer event is only taken when its  *)
(* document-space image is an integer point, so every division is exact.   *)
(***************************************************************************)
EXTENDS Integers, Sequences, FiniteSets, TLC

VARIABLES
    annotations,        \* useAnnotations: Annotation[]
    currentTool,        \* useAnnotations: Tool
    nextId,             \* the ids nanoid() has handed out are 1 .. nextId - 1
    document,           \* useDocument: pages, currentPage, zoom (as zoom4)
    panOffset,          \* PdfViewer
    isPanning,          \* PdfViewer
    panStart,           \* PdfViewer
    selectedAnnotation, \* AnnotationLayer
    isDragging,         \* AnnotationLayer
    dragStart,          \* AnnotationLayer
    originalPosition,   \* AnnotationLayer
    isHighlighting,     \* AnnotationLayer
    highlightStart,     \* AnnotationLayer
    currentHighlight,   \* AnnotationLayer
    isDrawingRef,       \* AnnotationLayer
    currentPathRef,     \* AnnotationLayer
    pressed,            \* the canvas saw a mousedown and no mouseup since
    unpaired,           \* pointer events so far that broke the down/up pairing
    hitPoint,           \* the argument of the last direct call of the hit test
    lastCall,           \* the last direct call of a store operation
    result,             \* the value the last direct call returned
    pdfProxy,           \* useDocument: the parsed PDF of the active document
    loading,            \* useDocument
    error,              \* useDocument
    loads               \* loadDocument calls waiting for their file to parse

storeVars == <<annotations, currentTool, nextId>>
viewVars == <<document, panOffset, isPanning, panStart>>
layerVars == <<selectedAnnotation, isDragging, dragStart, originalPosition,
               isHighlighting, highlightStart, currentHighlight,
               isDrawingRef, currentPathRef>>
pointerVars == <<pressed, unpaired>>
callVars == <<hitPoint, lastCall, result>>
loadVars == <<pdfProxy, loading, error, loads>>
vars == <<annotations, currentTool, nextId, document, panOffset, isPanning,
          panStart, selectedAnnotation, isDragging, dragStart,
          originalPosition, isHighlighting, highlightStart, currentHighlight,
          isDrawingRef, currentPathRef, pressed, unpaired, hitPoint,
          lastCall, result, pdfProxy, loading, error, loads>>

----------------------------------------------------------------------------
(* Bounds of the model *)

MaxAnnotations == 2     \* records the store may hold
MaxUnpaired == 1        \* mousedowns without mouseup, mouseups without mousedown
MaxPath == 2            \* points a freehand path may hold
MaxCoord == 6           \* a drag keeps the origin within 0 .. MaxCoord
ZoomInSteps == 1        \* zoom-in steps followed above zoom 1
ZoomOutSteps == 0       \* zoom-out steps followed below zoom 1
Pages == 2              \* pages of the loaded document

(* Inputs *)

Pt(px, py) == [x |-> px, y |-> py]
DownPoints == {Pt(0, 0)}
MovePoints == {Pt(6, 6)}
ToolTypes == {"select", "text", "highlight", "draw", "eraser"}
ToolColors == {"#ef4444"}
ToolSizes == {2}
PromptResults == {[cancelled |-> TRUE], [text |-> ""], [text |-> "x"]}

(* Absent values *)

Null == [null |-> TRUE]
NoId == 0

(* The size of a page as rendered at zoom 1, that of a large page, and the *)
(* size of the area the viewer gets                                       *)

NativePage == [width |-> 16, height |-> 16]
LargePage == [width |-> 32, height |-> 32]
Viewport == [width |-> 24, height |-> 24]

(* A file as the program sees it: its name and extension, the number and  *)
(* the height of its pages, the size of a page as rendered at zoom 1, and  *)
(* whether the PDF libraries can read and write it                         *)

PdfFile(name, pages, height, page, fault) ==
    [name |-> name, ext |-> ".pdf", pages |-> pages, height |-> height,
     page |-> page, fault |-> fault]

OpenedFile == PdfFile("a.pdf", Pages, 600, NativePage, "none")

----------------------------------------------------------------------------
(* Sequences and records *)

Last(s) == s[Len(s)]
Front(s) == SubSeq(s, 1, Len(s) - 1)
Ids(store) == {store[i].id : i \in 1..Len(store)}
SameBut(a, b, fields) ==
    /\ DOMAIN a = DOMAIN b
    /\ \A f \in DOMAIN a \ fields : a[f] = b[f]

----------------------------------------------------------------------------
(* useAnnotations *)

Merge(r, u) ==
    [f \in (DOMAIN r) \cup (DOMAIN u) |-> IF f \in DOMAIN u THEN u[f] ELSE r[f]]

\* nanoid(): callsMade is the number of ids this handler has already drawn
nanoid(callsMade) == nextId + callsMade

\* an id taken from the length of the store
addAnnotationCountingIds(store, annotation, callsMade) ==
    LET newAnnotation == Merge(annotation, [id |-> Len(store) + 1])
    IN Append(store, newAnnotation)

addAnnotation(store, annotation, callsMade) ==
    LET newAnnotation == Merge(annotation, [id |-> nanoid(callsMade)])
    IN Append(store, newAnnotation)

\* an update that inserts the fields as a new record when the id is absent
updateAnnotationOrInsert(store, id, updates) ==
    IF \E i \in 1..Len(store) : store[i].id = id
    THEN [i \in 1..Len(store) |->
             IF store[i].id = id THEN Merge(store[i], updates) ELSE store[i]]
    ELSE Append(store, Merge(updates, [id |-> id]))

updateAnnotation(store, id, updates) ==
    [i \in 1..Len(store) |->
        IF store[i].id = id THEN Merge(store[i], updates) ELSE store[i]]

removeAnnotation(store, id) ==
    SelectSeq(store, LAMBDA a : a.id # id)

getAnnotationsForPage(store, page) ==
    SelectSeq(store, LAMBDA a : a.page = page)

\* a setTool that starts from the default descriptor
setToolFromDefault(tool, partial) ==
    Merge([type |-> "select", color |-> "#ef4444", size |-> 2], partial)

setTool(tool, partial) == Merge(tool, partial)

----------------------------------------------------------------------------
(* PdfViewer: derived view values *)

CanvasSizeOf(file, zoom4) == [width |-> (file.page.width * zoom4) \div 4,
                              height |-> (file.page.height * zoom4) \div 4]

CanvasSizeAt(zoom4) == CanvasSizeOf(document.file, zoom4)

ZoomedInOf(file, zoom4) ==
    \/ CanvasSizeOf(file, zoom4).width > Viewport.width
    \/ CanvasSizeOf(file, zoom4).height > Viewport.height

ZoomedInAt(zoom4) == ZoomedInOf(document.file, zoom4)

canvasSize == CanvasSizeAt(document.zoom4)

isZoomedIn == ZoomedInAt(document.zoom4)

\* getBoundingClientRect of the annotation canvas: it sits in the translated
\* page element, the container's corner is the origin of the client space
canvasRect == IF isZoomedIn THEN panOffset ELSE Pt(0, 0)

\* the annotations the layer is given
layerAnnotations == getAnnotationsForPage(annotations, document.currentPage)

----------------------------------------------------------------------------
(* AnnotationLayer: pure helpers *)

Exact(e) ==
    /\ ((e.x - canvasRect.x - panOffset.x) * 4) % document.zoom4 = 0
    /\ ((e.y - canvasRect.y - panOffset.y) * 4) % document.zoom4 = 0

getCanvasCoordinates(e) ==
    Pt(((e.x - canvasRect.x - panOffset.x) * 4) \div document.zoom4,
       ((e.y - canvasRect.y - panOffset.y) * 4) \div document.zoom4)

Has(a, f) == f \in DOMAIN a

\* a text box that reaches below the baseline as far as above it
isPointInTextAnnotationAroundBaseline(point, annotation) ==
    IF annotation.type # "text" \/ ~Has(annotation, "content")
          \/ annotation.content = ""
    THEN FALSE
    ELSE LET textWidth == Len(annotation.content) * (annotation.size * 6)
             textHeight == annotation.size * 12
         IN /\ point.x >= annotation.x
            /\ point.x <= annotation.x + textWidth
            /\ point.y >= annotation.y - textHeight
            /\ point.y <= annotation.y + textHeight

isPointInTextAnnotation(point, annotation) ==
    IF annotation.type # "text" \/ ~Has(annotation, "content")
          \/ annotation.content = ""
    THEN FALSE
    ELSE LET textWidth == Len(annotation.content) * (annotation.size * 6)
             textHeight == annotation.size * 12
         IN /\ point.x >= annotation.x
            /\ point.x <= annotation.x + textWidth
            /\ point.y >= annotation.y - textHeight
            /\ point.y <= annotation.y

OrDefault(a, f, d) == IF Has(a, f) /\ a[f] # 0 THEN a[f] ELSE d

\* a highlight test that leaves out the far edges
isPointInHighlightExclusive(point, annotation) ==
    LET width == OrDefault(annotation, "width", 100)
        height == OrDefault(annotation, "height", 20)
    IN /\ point.x >= annotation.x
       /\ point.x < annotation.x + width
       /\ point.y >= annotation.y
       /\ point.y < annotation.y + height

isPointInHighlight(point, annotation) ==
    LET width == OrDefault(annotation, "width", 100)
        height == OrDefault(annotation, "height", 20)
    IN /\ point.x >= annotation.x
       /\ point.x <= annotation.x + width
       /\ point.y >= annotation.y
       /\ point.y <= annotation.y + height

RECURSIVE ScanText(_, _, _, _)
ScanText(list, page, point, i) ==
    IF i < 1 THEN Null
    ELSE IF /\ list[i].page = page
            /\ list[i].type = "text"
            /\ isPointInTextAnnotation(point, list[i])
         THEN list[i]
         ELSE ScanText(list, page, point, i - 1)

\* a second loop that also takes a drawing whose origin is the point
RECURSIVE ScanOtherWithDrawings(_, _, _, _)
ScanOtherWithDrawings(list, page, point, i) ==
    IF i < 1 THEN Null
    ELSE IF /\ list[i].page = page
            /\ \/ list[i].type = "highlight" /\ isPointInHighlight(point, list[i])
               \/ list[i].type = "drawing" /\ point = Pt(list[i].x, list[i].y)
         THEN list[i]
         ELSE ScanOtherWithDrawings(list, page, point, i - 1)

RECURSIVE ScanOther(_, _, _, _)
ScanOther(list, page, point, i) ==
    IF i < 1 THEN Null
    ELSE IF /\ list[i].page = page
            /\ list[i].type = "highlight"
            /\ isPointInHighlight(point, list[i])
         THEN list[i]
         ELSE ScanOther(list, page, point, i - 1)

\* one loop from the end over texts and highlights alike
RECURSIVE ScanAll(_, _, _, _)
ScanAll(list, page, point, i) ==
    IF i < 1 THEN Null
    ELSE IF /\ list[i].page = page
            /\ \/ list[i].type = "text" /\ isPointInTextAnnotation(point, list[i])
               \/ list[i].type = "highlight" /\ isPointInHighlight(point, list[i])
         THEN list[i]
         ELSE ScanAll(list, page, point, i - 1)

findAnnotationAtPointInOneLoop(list, page, point) ==
    ScanAll(list, page, point, Len(list))

\* both loops run from the start of the list
findAnnotationAtPointOldestFirst(list, page, point) ==
    LET texts == {i \in 1..Len(list) :
                     /\ list[i].page = page
                     /\ list[i].type = "text"
                     /\ isPointInTextAnnotation(point, list[i])}
        others == {i \in 1..Len(list) :
                      /\ list[i].page = page
                      /\ list[i].type = "highlight"
                      /\ isPointInHighlight(point, list[i])}
        First(S) == CHOOSE i \in S : \A j \in S : i <= j
    IN IF texts # {} THEN list[First(texts)]
       ELSE IF others # {} THEN list[First(others)]
       ELSE Null

findAnnotationAtPoint(list, page, point) ==
    LET text == ScanText(list, page, point, Len(list))
    IN IF text # Null THEN text
       ELSE ScanOther(list, page, point, Len(list))

----------------------------------------------------------------------------
(* PdfEditor gives the viewer onAddAnnotation and onUpdateAnnotation only: *)
(* the layer's onRemoveAnnotation is undefined, and calling it throws      *)

onRemoveAnnotationWired == FALSE

----------------------------------------------------------------------------
(* Initial state: a PDF of Pages pages is loaded and the viewer is mounted *)

\* useDocument after loadDocument(file) has run to its end
LoadIdle(file) ==
    /\ pdfProxy = file
    /\ loading = FALSE
    /\ error = Null
    /\ loads = <<>>

Init ==
    /\ annotations = <<>>
    /\ currentTool = [type |-> "select", color |-> "#ef4444", size |-> 2]
    /\ nextId = 1
    /\ document = [file |-> OpenedFile, type |-> "pdf", pages |-> Pages,
                       currentPage |-> 1, zoom4 |-> 4]
    /\ panOffset = Pt(0, 0)
    /\ isPanning = FALSE
    /\ panStart = Pt(0, 0)
    /\ selectedAnnotation = NoId
    /\ isDragging = FALSE
    /\ dragStart = Null
    /\ originalPosition = Null
    /\ isHighlighting = FALSE
    /\ highlightStart = Null
    /\ currentHighlight = Null
    /\ isDrawingRef = FALSE
    /\ currentPathRef = <<>>
    /\ pressed = FALSE
    /\ unpaired = 0
    /\ hitPoint = Null
    /\ lastCall = Null
    /\ result = Null
    /\ LoadIdle(OpenedFile)

----------------------------------------------------------------------------
(* AnnotationLayer.handleMouseDown, on the state the handler closes over *)

\* a pointer-down whose select branch starts a drag without recording the
\* anchor and the original position
LayerMouseDownWithoutAnchor(e, prompted) ==
    LET coords == getCanvasCoordinates(e)
        page == document.currentPage
        clickedAnnotation == findAnnotationAtPoint(layerAnnotations, page, coords)
    IN
    IF currentTool.type = "select" THEN
        /\ IF clickedAnnotation # Null
           THEN /\ selectedAnnotation' = clickedAnnotation.id
                /\ isDragging' = TRUE
                /\ UNCHANGED <<dragStart, originalPosition>>
           ELSE /\ selectedAnnotation' = NoId
                /\ UNCHANGED <<isDragging, dragStart, originalPosition>>
        /\ UNCHANGED <<annotations, nextId, isHighlighting, highlightStart,
                       currentHighlight, isDrawingRef, currentPathRef>>
    ELSE IF currentTool.type = "eraser" THEN
        /\ IF clickedAnnotation # Null /\ onRemoveAnnotationWired
           THEN /\ annotations' = removeAnnotation(annotations, clickedAnnotation.id)
                /\ selectedAnnotation' = NoId
           ELSE \* no hit, or the call of the undefined prop throws
                UNCHANGED <<annotations, selectedAnnotation>>
        /\ UNCHANGED <<nextId, isDragging, dragStart, originalPosition,
                       isHighlighting, highlightStart, currentHighlight,
                       isDrawingRef, currentPathRef>>
    ELSE
        /\ isDrawingRef' = TRUE
        /\ IF currentTool.type = "draw" THEN
               /\ currentPathRef' = <<coords>>
               /\ UNCHANGED <<annotations, nextId, isHighlighting,
                              highlightStart, currentHighlight>>
           ELSE IF currentTool.type = "text" THEN
               /\ IF Has(prompted, "text") /\ prompted.text # ""
                  THEN /\ annotations' = addAnnotation(annotations,
                              [type |-> "text", page |-> page,
                               x |-> coords.x, y |-> coords.y,
                               content |-> prompted.text,
                               color |-> currentTool.color,
                               size |-> currentTool.size], 0)
                       /\ nextId' = nextId + 1
                  ELSE UNCHANGED <<annotations, nextId>>
               /\ UNCHANGED <<currentPathRef, isHighlighting, highlightStart,
                              currentHighlight>>
           ELSE \* highlight
               /\ isHighlighting' = TRUE
               /\ highlightStart' = coords
               /\ currentHighlight' = [x |-> coords.x, y |-> coords.y,
                                       width |-> 0, height |-> 0]
               /\ UNCHANGED <<annotations, nextId, currentPathRef>>
        /\ UNCHANGED <<selectedAnnotation, isDragging, dragStart, originalPosition>>

\* a pointer-down whose eraser removes the record and keeps the selection
LayerMouseDownErasingSelected(e, prompted) ==
    LET coords == getCanvasCoordinates(e)
        page == document.currentPage
        clickedAnnotation == findAnnotationAtPoint(layerAnnotations, page, coords)
    IN
    IF currentTool.type = "select" THEN
        /\ IF clickedAnnotation # Null
           THEN /\ selectedAnnotation' = clickedAnnotation.id
                /\ isDragging' = TRUE
                /\ dragStart' = coords
                /\ originalPosition' = Pt(clickedAnnotation.x, clickedAnnotation.y)
           ELSE /\ selectedAnnotation' = NoId
                /\ UNCHANGED <<isDragging, dragStart, originalPosition>>
        /\ UNCHANGED <<annotations, nextId, isHighlighting, highlightStart,
                       currentHighlight, isDrawingRef, currentPathRef>>
    ELSE IF currentTool.type = "eraser" THEN
        /\ IF clickedAnnotation # Null
           THEN /\ annotations' = removeAnnotation(annotations, clickedAnnotation.id)
                /\ UNCHANGED selectedAnnotation
           ELSE UNCHANGED <<annotations, selectedAnnotation>>
        /\ UNCHANGED <<nextId, isDragging, dragStart, originalPosition,
                       isHighlighting, highlightStart, currentHighlight,
                       isDrawingRef, currentPathRef>>
    ELSE
        /\ isDrawingRef' = TRUE
        /\ IF currentTool.type = "draw" THEN
               /\ currentPathRef' = <<coords>>
               /\ UNCHANGED <<annotations, nextId, isHighlighting,
                              highlightStart, currentHighlight>>
           ELSE IF currentTool.type = "text" THEN
               /\ IF Has(prompted, "text") /\ prompted.text # ""
                  THEN /\ annotations' = addAnnotation(annotations,
                              [type |-> "text", page |-> page,
                               x |-> coords.x, y |-> coords.y,
                               content |-> prompted.text,
                               color |-> currentTool.color,
                               size |-> currentTool.size], 0)
                       /\ nextId' = nextId + 1
                  ELSE UNCHANGED <<annotations, nextId>>
               /\ UNCHANGED <<currentPathRef, isHighlighting, highlightStart,
                              currentHighlight>>
           ELSE \* highlight
               /\ isHighlighting' = TRUE
               /\ highlightStart' = coords
               /\ currentHighlight' = [x |-> coords.x, y |-> coords.y,
                                       width |-> 0, height |-> 0]
               /\ UNCHANGED <<annotations, nextId, currentPathRef>>
        /\ UNCHANGED <<selectedAnnotation, isDragging, dragStart, originalPosition>>

LayerMouseDown(e, prompted) ==
    LET coords == getCanvasCoordinates(e)
        page == document.currentPage
        clickedAnnotation == findAnnotationAtPoint(layerAnnotations, page, coords)
    IN
    IF currentTool.type = "select" THEN
        /\ IF clickedAnnotation # Null
           THEN /\ selectedAnnotation' = clickedAnnotation.id
                /\ isDragging' = TRUE
                /\ dragStart' = coords
                /\ originalPosition' = Pt(clickedAnnotation.x, clickedAnnotation.y)
           ELSE /\ selectedAnnotation' = NoId
                /\ UNCHANGED <<isDragging, dragStart, originalPosition>>
        /\ UNCHANGED <<annotations, nextId, isHighlighting, highlightStart,
                       currentHighlight, isDrawingRef, currentPathRef>>
    ELSE IF currentTool.type = "eraser" THEN
        /\ IF clickedAnnotation # Null /\ onRemoveAnnotationWired
           THEN /\ annotations' = removeAnnotation(annotations, clickedAnnotation.id)
                /\ selectedAnnotation' = NoId
           ELSE \* no hit, or the call of the undefined prop throws
                UNCHANGED <<annotations, selectedAnnotation>>
        /\ UNCHANGED <<nextId, isDragging, dragStart, originalPosition,
                       isHighlighting, highlightStart, currentHighlight,
                       isDrawingRef, currentPathRef>>
    ELSE
        /\ isDrawingRef' = TRUE
        /\ IF currentTool.type = "draw" THEN
               /\ currentPathRef' = <<coords>>
               /\ UNCHANGED <<annotations, nextId, isHighlighting,
                              highlightStart, currentHighlight>>
           ELSE IF currentTool.type = "text" THEN
               /\ IF Has(prompted, "text") /\ prompted.text # ""
                  THEN /\ annotations' = addAnnotation(annotations,
                              [type |-> "text", page |-> page,
                               x |-> coords.x, y |-> coords.y,
                               content |-> prompted.text,
                               color |-> currentTool.color,
                               size |-> currentTool.size], 0)
                       /\ nextId' = nextId + 1
                  ELSE UNCHANGED <<annotations, nextId>>
               /\ UNCHANGED <<currentPathRef, isHighlighting, highlightStart,
                              currentHighlight>>
           ELSE \* highlight
               /\ isHighlighting' = TRUE
               /\ highlightStart' = coords
               /\ currentHighlight' = [x |-> coords.x, y |-> coords.y,
                                       width |-> 0, height |-> 0]
               /\ UNCHANGED <<annotations, nextId, currentPathRef>>
        /\ UNCHANGED <<selectedAnnotation, isDragging, dragStart, originalPosition>>

(* PdfViewer.handleMouseDown: the same event, bubbling to the container *)

ViewerMouseDown(e) ==
    IF ~isZoomedIn
    THEN UNCHANGED <<isPanning, panStart>>
    ELSE /\ isPanning' = TRUE
         /\ panStart' = Pt(e.x - panOffset.x, e.y - panOffset.y)

\* The listeners sit on the canvas only: a button released outside it, a
\* second button, or a button pressed outside and released on the canvas
\* deliver a mousedown after a mousedown or a mouseup without a mousedown.
Press ==
    /\ pressed => unpaired < MaxUnpaired
    /\ pressed' = TRUE
    /\ unpaired' = IF pressed THEN unpaired + 1 ELSE unpaired

Release ==
    /\ ~pressed => unpaired < MaxUnpaired
    /\ pressed' = FALSE
    /\ unpaired' = IF pressed THEN unpaired ELSE unpaired + 1

MouseDown(e, prompted) ==
    /\ Exact(e)
    /\ Press
    /\ LayerMouseDown(e, prompted)
    /\ ViewerMouseDown(e)
    /\ Len(annotations') <= MaxAnnotations
    /\ UNCHANGED <<currentTool, document, panOffset, callVars, loadVars>>

----------------------------------------------------------------------------
(* AnnotationLayer.handleMouseMove *)

Abs(n) == IF n < 0 THEN -n ELSE n
Min(a, b) == IF a <= b THEN a ELSE b
Max(a, b) == IF a >= b THEN a ELSE b

LayerMouseMove(e) ==
    LET coords == getCanvasCoordinates(e) IN
    IF isDragging /\ selectedAnnotation # NoId /\ dragStart # Null
          /\ originalPosition # Null
    THEN
        LET deltaX == coords.x - dragStart.x
            deltaY == coords.y - dragStart.y
            newX == originalPosition.x + deltaX
            newY == originalPosition.y + deltaY
        IN /\ newX \in 0..MaxCoord /\ newY \in 0..MaxCoord
           /\ annotations' = updateAnnotation(annotations, selectedAnnotation,
                                              [x |-> newX, y |-> newY])
           /\ UNCHANGED <<currentHighlight, currentPathRef>>
    ELSE IF isHighlighting /\ highlightStart # Null
    THEN
        LET width == coords.x - highlightStart.x
            height == coords.y - highlightStart.y
        IN /\ currentHighlight' = [x |-> Min(highlightStart.x, coords.x),
                                   y |-> Min(highlightStart.y, coords.y),
                                   width |-> Abs(width),
                                   height |-> Abs(height)]
           /\ UNCHANGED <<annotations, currentPathRef>>
    ELSE IF ~isDrawingRef \/ currentTool.type # "draw"
    THEN UNCHANGED <<annotations, currentHighlight, currentPathRef>>
    ELSE /\ Len(currentPathRef) < MaxPath
         /\ currentPathRef' = Append(currentPathRef, coords)
         /\ UNCHANGED <<annotations, currentHighlight>>

(* PdfViewer.handleMouseMove *)

ViewerMouseMove(e) ==
    IF ~isPanning \/ ~isZoomedIn
    THEN UNCHANGED panOffset
    ELSE LET maxX == Max(0, canvasSize.width - Viewport.width)
             maxY == Max(0, canvasSize.height - Viewport.height)
         IN panOffset' = Pt(Max(-maxX, Min(0, e.x - panStart.x)),
                            Max(-maxY, Min(0, e.y - panStart.y)))

MouseMove(e) ==
    /\ Exact(e)
    /\ LayerMouseMove(e)
    /\ ViewerMouseMove(e)
    /\ UNCHANGED <<currentTool, nextId, document, isPanning, panStart,
                   selectedAnnotation, isDragging, dragStart, originalPosition,
                   isHighlighting, highlightStart, isDrawingRef, pointerVars,
                   callVars, loadVars>>

----------------------------------------------------------------------------
(* AnnotationLayer.handleMouseUp *)

\* a threshold that lets a 5 x 5 rectangle through
HighlightCompletesAtFive ==
    /\ isHighlighting
    /\ currentHighlight # Null
    /\ currentHighlight.width >= 5
    /\ currentHighlight.height >= 5

HighlightCompletes ==
    /\ isHighlighting
    /\ currentHighlight # Null
    /\ currentHighlight.width > 5
    /\ currentHighlight.height > 5

\* a path of a single point is committed
DrawingCompletesWithOnePoint ==
    /\ ~isDragging
    /\ isDrawingRef
    /\ currentTool.type = "draw"
    /\ Len(currentPathRef) > 0

DrawingCompletes ==
    /\ ~isDragging
    /\ isDrawingRef
    /\ currentTool.type = "draw"
    /\ Len(currentPathRef) > 1

LayerMouseUp ==
    LET page == document.currentPage
        afterHighlight ==
            IF HighlightCompletes
            THEN addAnnotation(annotations,
                     [type |-> "highlight", page |-> page,
                      x |-> currentHighlight.x, y |-> currentHighlight.y,
                      width |-> currentHighlight.width,
                      height |-> currentHighlight.height,
                      color |-> currentTool.color,
                      size |-> currentTool.size], 0)
            ELSE annotations
        drawn == IF HighlightCompletes THEN 1 ELSE 0
    IN
    /\ isHighlighting' = FALSE
    /\ highlightStart' = Null
    /\ currentHighlight' = Null
    /\ IF isDragging THEN
           /\ isDragging' = FALSE
           /\ dragStart' = Null
           /\ originalPosition' = Null
           /\ annotations' = afterHighlight
           /\ nextId' = nextId + drawn
           /\ UNCHANGED <<isDrawingRef, currentPathRef>>
       ELSE IF ~isDrawingRef THEN
           /\ annotations' = afterHighlight
           /\ nextId' = nextId + drawn
           /\ UNCHANGED <<isDragging, dragStart, originalPosition,
                          isDrawingRef, currentPathRef>>
       ELSE
           /\ IF DrawingCompletes
              THEN /\ annotations' = addAnnotation(afterHighlight,
                          [type |-> "drawing", page |-> page,
                           x |-> currentPathRef[1].x,
                           y |-> currentPathRef[1].y,
                           points |-> currentPathRef,
                           color |-> currentTool.color,
                           size |-> currentTool.size], drawn)
                   /\ nextId' = nextId + drawn + 1
              ELSE /\ annotations' = afterHighlight
                   /\ nextId' = nextId + drawn
           /\ isDrawingRef' = FALSE
           /\ currentPathRef' = <<>>
           /\ UNCHANGED <<isDragging, dragStart, originalPosition>>
    /\ UNCHANGED selectedAnnotation

(* PdfViewer.handleMouseUp *)

ViewerMouseUp == isPanning' = FALSE

MouseUp ==
    /\ Release
    /\ LayerMouseUp
    /\ ViewerMouseUp
    /\ Len(annotations') <= MaxAnnotations
    /\ UNCHANGED <<currentTool, document, panOffset, panStart, callVars, loadVars>>

(* PdfViewer.handleMouseLeave: the pointer leaves the container *)

MouseLeave ==
    /\ isPanning' = FALSE
    /\ UNCHANGED <<storeVars, document, panOffset, panStart, layerVars,
                   pointerVars, callVars, loadVars>>

----------------------------------------------------------------------------
(* ToolSidebar: onToolChange with one field *)

SetTool(partial) ==
    /\ currentTool' = setTool(currentTool, partial)
    /\ UNCHANGED <<annotations, nextId, viewVars, layerVars, pointerVars,
                   callVars, loadVars>>

----------------------------------------------------------------------------
(* useDocument.setZoom and setCurrentPage, as PdfViewer calls them *)

\* the viewer's effect on a new canvas size: no pan unless zoomed in
PanAfterZoom(zoom4) == IF ZoomedInAt(zoom4) THEN panOffset ELSE Pt(0, 0)

\* a setZoom that takes any value
setZoomUnchecked(zoom4) ==
    /\ document' = [document EXCEPT !.zoom4 = zoom4]
    /\ panOffset' = PanAfterZoom(zoom4)

setZoom(zoom4) ==
    IF zoom4 >= 2 /\ zoom4 <= 12
    THEN /\ document' = [document EXCEPT !.zoom4 = zoom4]
         /\ panOffset' = PanAfterZoom(zoom4)
    ELSE UNCHANGED <<document, panOffset>>

setCurrentPage(page) ==
    IF page >= 1 /\ page <= document.pages
    THEN document' = [document EXCEPT !.currentPage = page]
    ELSE UNCHANGED document

ZoomIn ==
    /\ document.zoom4 < 12
    /\ document.zoom4 < 4 + ZoomInSteps
    /\ setZoom(Min(document.zoom4 + 1, 12))
    /\ UNCHANGED <<storeVars, isPanning, panStart, layerVars, pointerVars,
                   callVars, loadVars>>

ZoomOut ==
    /\ document.zoom4 > 2
    /\ document.zoom4 > 4 - ZoomOutSteps
    /\ setZoom(Max(document.zoom4 - 1, 2))
    /\ UNCHANGED <<storeVars, isPanning, panStart, layerVars, pointerVars,
                   callVars, loadVars>>

NextPage ==
    /\ document.currentPage < document.pages
    /\ setCurrentPage(document.currentPage + 1)
    /\ UNCHANGED <<storeVars, panOffset, isPanning, panStart, layerVars,
                   pointerVars, callVars, loadVars>>

PreviousPage ==
    /\ document.currentPage > 1
    /\ setCurrentPage(document.currentPage - 1)
    /\ UNCHANGED <<storeVars, panOffset, isPanning, panStart, layerVars,
                   pointerVars, callVars, loadVars>>

PageInput(page) ==
    /\ page >= 1 /\ page <= document.pages
    /\ setCurrentPage(page)
    /\ UNCHANGED <<storeVars, panOffset, isPanning, panStart, layerVars,
                   pointerVars, callVars, loadVars>>

----------------------------------------------------------------------------
Next ==
    \/ \E e \in DownPoints, prompted \in PromptResults : MouseDown(e, prompted)
    \/ \E e \in MovePoints : MouseMove(e)
    \/ MouseUp
    \/ MouseLeave
    \/ \E t \in ToolTypes : SetTool([type |-> t])
    \/ \E c \in ToolColors : SetTool([color |-> c])
    \/ \E s \in ToolSizes : SetTool([size |-> s])
    \/ ZoomIn
    \/ ZoomOut
    \/ NextPage
    \/ PreviousPage
    \/ \E page \in 0..(Pages + 1) : PageInput(page)

Spec == Init /\ [][Next]_vars

----------------------------------------------------------------------------
(* The highlight gesture on finer pointer positions: the tools that start  *)
(* a gesture, the anchor at the origin, moves to 4, 5 and 6 units          *)

FineMovePoints == {Pt(4, 4), Pt(5, 5), Pt(6, 6)}
GestureTools == {"select", "highlight", "draw"}

NextHighlight ==
    \/ \E e \in DownPoints : MouseDown(e, [cancelled |-> TRUE])
    \/ \E e \in FineMovePoints : MouseMove(e)
    \/ MouseUp
    \/ \E t \in GestureTools : SetTool([type |-> t])

HighlightSpec == Init /\ [][NextHighlight]_vars

(* The highlight gesture in its four directions: presses and moves at the  *)
(* corners of a square, with the tools that place, grab and highlight      *)

Corners == {Pt(0, 0), Pt(MaxCoord, 0), Pt(0, MaxCoord), Pt(MaxCoord, MaxCoord)}
DirectionTools == {"select", "text", "highlight"}

NextDirections ==
    \/ \E e \in Corners : MouseDown(e, [text |-> "x"])
    \/ \E e \in Corners : MouseMove(e)
    \/ MouseUp
    \/ \E t \in DirectionTools : SetTool([type |-> t])

DirectionSpec == Init /\ [][NextDirections]_vars

----------------------------------------------------------------------------
(* The hit test as a function: the layer is given a store and a page, and  *)
(* findAnnotationAtPoint is called on a point                              *)

MaxHitStore == 3

HitTemplates ==
    {[type |-> "text", page |-> 1, x |-> 10, y |-> 10, content |-> "x",
      color |-> "#ef4444", size |-> s] : s \in {1, 2, 4}}
    \cup
    {[type |-> "text", page |-> 2, x |-> 10, y |-> 10, content |-> "x",
      color |-> "#ef4444", size |-> 2],
     [type |-> "highlight", page |-> 1, x |-> 0, y |-> 0, width |-> 100,
      height |-> 20, color |-> "#ef4444", size |-> 2],
     [type |-> "highlight", page |-> 1, x |-> 12, y |-> 6, width |-> 6,
      height |-> 6, color |-> "#3b82f6", size |-> 2],
     [type |-> "drawing", page |-> 1, x |-> 15, y |-> 12,
      points |-> <<Pt(15, 12), Pt(15, 10)>>, color |-> "#ef4444", size |-> 2]}

HitPoints == {Pt(15, 12), Pt(15, 10), Pt(10, 10), Pt(50, 15), Pt(200, 200)}

\* the store after adding the templates in order: the ids are 1, 2, ...
WithIds(templates) ==
    [i \in 1..Len(templates) |-> Merge(templates[i], [id |-> i])]

HitStores ==
    UNION {[1..n -> HitTemplates] : n \in 0..MaxHitStore}

InitHit ==
    /\ \E templates \in HitStores :
           /\ annotations = WithIds(templates)
           /\ nextId = Len(templates) + 1
    /\ currentTool = [type |-> "select", color |-> "#ef4444", size |-> 2]
    /\ \E page \in 1..Pages :
           document = [file |-> OpenedFile, type |-> "pdf", pages |-> Pages,
                       currentPage |-> page, zoom4 |-> 4]
    /\ panOffset = Pt(0, 0)
    /\ isPanning = FALSE
    /\ panStart = Pt(0, 0)
    /\ selectedAnnotation = NoId
    /\ isDragging = FALSE
    /\ dragStart = Null
    /\ originalPosition = Null
    /\ isHighlighting = FALSE
    /\ highlightStart = Null
    /\ currentHighlight = Null
    /\ isDrawingRef = FALSE
    /\ currentPathRef = <<>>
    /\ pressed = FALSE
    /\ unpaired = 0
    /\ hitPoint = Null
    /\ lastCall = Null
    /\ result = Null
    /\ LoadIdle(OpenedFile)

HitTest(point) ==
    /\ hitPoint' = point
    /\ result' = findAnnotationAtPoint(layerAnnotations, document.currentPage,
                                       point)
    /\ UNCHANGED <<storeVars, viewVars, layerVars, pointerVars, lastCall,
                   loadVars>>

NextHit == \E point \in HitPoints : HitTest(point)

HitSpec == InitHit /\ [][NextHit]_vars

(* The hit test on the edges of the bounds: a text of two characters, a    *)
(* highlight that states no width and height, one that does, and points on *)
(* and next to the edges                                                   *)

BoundsTemplates ==
    {[type |-> "text", page |-> 1, x |-> 10, y |-> 30, content |-> "ab",
      color |-> "#ef4444", size |-> 1],
     [type |-> "text", page |-> 2, x |-> 10, y |-> 30, content |-> "x",
      color |-> "#ef4444", size |-> 2],
     [type |-> "highlight", page |-> 1, x |-> 20, y |-> 40,
      color |-> "#ef4444", size |-> 2],
     [type |-> "highlight", page |-> 1, x |-> 12, y |-> 6, width |-> 6,
      height |-> 6, color |-> "#3b82f6", size |-> 2]}

BoundsPoints ==
    {Pt(10, 30), Pt(22, 18), Pt(23, 18), Pt(22, 17), Pt(9, 30), Pt(10, 31),
     Pt(20, 40), Pt(19, 40), Pt(120, 60), Pt(121, 60), Pt(120, 61),
     Pt(12, 6), Pt(18, 12), Pt(19, 12), Pt(18, 13)}

BoundsStores ==
    UNION {[1..n -> BoundsTemplates] : n \in 0..MaxHitStore}

InitBounds ==
    /\ \E templates \in BoundsStores :
           /\ annotations = WithIds(templates)
           /\ nextId = Len(templates) + 1
    /\ currentTool = [type |-> "select", color |-> "#ef4444", size |-> 2]
    /\ \E page \in 1..Pages :
           document = [file |-> OpenedFile, type |-> "pdf", pages |-> Pages,
                       currentPage |-> page, zoom4 |-> 4]
    /\ panOffset = Pt(0, 0)
    /\ isPanning = FALSE
    /\ panStart = Pt(0, 0)
    /\ selectedAnnotation = NoId
    /\ isDragging = FALSE
    /\ dragStart = Null
    /\ originalPosition = Null
    /\ isHighlighting = FALSE
    /\ highlightStart = Null
    /\ currentHighlight = Null
    /\ isDrawingRef = FALSE
    /\ currentPathRef = <<>>
    /\ pressed = FALSE
    /\ unpaired = 0
    /\ hitPoint = Null
    /\ lastCall = Null
    /\ result = Null
    /\ LoadIdle(OpenedFile)

NextBounds == \E point \in BoundsPoints : HitTest(point)

BoundsSpec == InitBounds /\ [][NextBounds]_vars

----------------------------------------------------------------------------
(* The store as the hook exports it, called directly                       *)

MaxIds == 3

NewRecords ==
    {[type |-> "text", page |-> 1, x |-> 0, y |-> 0, content |-> "x",
      color |-> "#ef4444", size |-> 2],
     [type |-> "highlight", page |-> 2, x |-> 0, y |-> 0, width |-> 6,
      height |-> 6, color |-> "#ef4444", size |-> 2],
     [type |-> "drawing", page |-> 1, x |-> 0, y |-> 0,
      points |-> <<Pt(0, 0), Pt(6, 6)>>, color |-> "#3b82f6", size |-> 1]}

Updates == {[x |-> 6, y |-> 6], [color |-> "#3b82f6"], [content |-> "y"]}

StoreAdd(annotation) ==
    /\ nextId <= MaxIds
    /\ annotations' = addAnnotation(annotations, annotation, 0)
    /\ result' = [returned |-> Last(addAnnotation(annotations, annotation, 0)).id]
    /\ nextId' = nextId + 1
    /\ lastCall' = [op |-> "add"]
    /\ UNCHANGED <<currentTool, viewVars, layerVars, pointerVars, hitPoint,
                   loadVars>>

StoreUpdate(id, updates) ==
    /\ annotations' = updateAnnotation(annotations, id, updates)
    /\ result' = Null
    /\ lastCall' = [op |-> "update", id |-> id]
    /\ UNCHANGED <<currentTool, nextId, viewVars, layerVars, pointerVars, hitPoint,
                   loadVars>>

StoreRemove(id) ==
    /\ annotations' = removeAnnotation(annotations, id)
    /\ result' = Null
    /\ lastCall' = [op |-> "remove", id |-> id]
    /\ UNCHANGED <<currentTool, nextId, viewVars, layerVars, pointerVars, hitPoint,
                   loadVars>>

StoreClear ==
    /\ annotations' = <<>>
    /\ result' = Null
    /\ lastCall' = [op |-> "clear"]
    /\ UNCHANGED <<currentTool, nextId, viewVars, layerVars, pointerVars, hitPoint,
                   loadVars>>

NextStore ==
    \/ \E annotation \in NewRecords : StoreAdd(annotation)
    \/ \E id \in 1..(MaxIds + 1), updates \in Updates : StoreUpdate(id, updates)
    \/ \E id \in 1..(MaxIds + 1) : StoreRemove(id)
    \/ StoreClear
    \/ \E t \in ToolTypes : SetTool([type |-> t])

StoreSpec == Init /\ [][NextStore]_vars

\* updateAnnotation takes a Partial<Annotation>: any field may be given
IdentityUpdates == {[id |-> 2], [type |-> "highlight"], [page |-> 2]}

NextStoreAnyUpdate ==
    \/ \E annotation \in NewRecords : StoreAdd(annotation)
    \/ \E id \in 1..(MaxIds + 1), updates \in IdentityUpdates :
          StoreUpdate(id, updates)
    \/ \E id \in 1..(MaxIds + 1) : StoreRemove(id)
    \/ StoreClear

StoreAnyUpdateSpec == Init /\ [][NextStoreAnyUpdate]_vars

----------------------------------------------------------------------------
(* The viewer zoomed in: the page is larger than the container, so that    *)
(* a press pans the page, and texts are placed on the panned page          *)

ViewZooms == {4, 8}
ViewDownPoints == {Pt(8, 8)}
ViewMovePoints == {Pt(0, 0), Pt(4, 4)}
ViewTools == {"select", "text"}

InitView ==
    /\ annotations = <<>>
    /\ currentTool = [type |-> "select", color |-> "#ef4444", size |-> 2]
    /\ nextId = 1
    /\ \E zoom4 \in ViewZooms :
           document = [file |-> OpenedFile, type |-> "pdf", pages |-> Pages,
                       currentPage |-> 1, zoom4 |-> zoom4]
    /\ panOffset = Pt(0, 0)
    /\ isPanning = FALSE
    /\ panStart = Pt(0, 0)
    /\ selectedAnnotation = NoId
    /\ isDragging = FALSE
    /\ dragStart = Null
    /\ originalPosition = Null
    /\ isHighlighting = FALSE
    /\ highlightStart = Null
    /\ currentHighlight = Null
    /\ isDrawingRef = FALSE
    /\ currentPathRef = <<>>
    /\ pressed = FALSE
    /\ unpaired = 0
    /\ hitPoint = Null
    /\ lastCall = Null
    /\ result = Null
    /\ LoadIdle(OpenedFile)

NextView ==
    \/ \E e \in ViewDownPoints : MouseDown(e, [text |-> "x"])
    \/ \E e \in ViewMovePoints : MouseMove(e)
    \/ MouseUp
    \/ MouseLeave
    \/ \E t \in ViewTools : SetTool([type |-> t])
    \/ ZoomIn
    \/ ZoomOut
    \/ NextPage
    \/ PreviousPage

ViewSpec == InitView /\ [][NextView]_vars

\* redrawCanvas: where a document-space point is painted on the canvas
toCanvasSpace(point) ==
    Pt((point.x * document.zoom4) \div 4, (point.y * document.zoom4) \div 4)

(* AnnotationLayer.redrawCanvas: the painting operations it issues on the  *)
(* cleared canvas, in the order it issues them; an opacity is in percent   *)

Scaled(n) == (n * document.zoom4) \div 4

\* the body of the forEach: a selected text or highlight gets an outline
paintAnnotation(annotation) ==
    IF annotation.type = "text"
    THEN IF Has(annotation, "content") /\ annotation.content # ""
         THEN <<[op |-> "fillText", text |-> annotation.content,
                 at |-> toCanvasSpace(Pt(annotation.x, annotation.y)),
                 font |-> annotation.size * 8, color |-> annotation.color,
                 alpha |-> 100,
                 outlined |-> selectedAnnotation = annotation.id]>>
         ELSE <<>>
    ELSE IF annotation.type = "highlight"
    THEN <<[op |-> "fillRect",
            at |-> toCanvasSpace(Pt(annotation.x, annotation.y)),
            width |-> Scaled(OrDefault(annotation, "width", 100)),
            height |-> Scaled(OrDefault(annotation, "height", 20)),
            color |-> annotation.color, alpha |-> 30,
            outlined |-> selectedAnnotation = annotation.id]>>
    ELSE IF annotation.type = "drawing" /\ Has(annotation, "points")
               /\ Len(annotation.points) > 1
    THEN <<[op |-> "stroke",
            points |-> [i \in 1..Len(annotation.points) |->
                           toCanvasSpace(annotation.points[i])],
            width |-> Scaled(annotation.size), color |-> annotation.color,
            alpha |-> 100]>>
    ELSE <<>>

RECURSIVE paintAnnotations(_)
paintAnnotations(list) ==
    IF list = <<>> THEN <<>>
    ELSE paintAnnotation(Head(list)) \o paintAnnotations(Tail(list))

\* the highlight that is being made
paintCurrentHighlight ==
    [op |-> "fillRect",
     at |-> toCanvasSpace(Pt(currentHighlight.x, currentHighlight.y)),
     width |-> Scaled(currentHighlight.width),
     height |-> Scaled(currentHighlight.height),
     color |-> currentTool.color, alpha |-> 30, outlined |-> FALSE]

redrawCanvas ==
    paintAnnotations(getAnnotationsForPage(layerAnnotations,
                                           document.currentPage))
    \o (IF isHighlighting /\ currentHighlight # Null
        THEN <<paintCurrentHighlight>> ELSE <<>>)

\* what redrawCanvas reads: the effect runs it again when one of these changes
redrawInputs ==
    <<layerAnnotations, document.currentPage, document.zoom4,
      selectedAnnotation, isHighlighting, currentHighlight, currentTool.color>>

\* the path that is being drawn, as handleMouseMove strokes it
paintCurrentPath ==
    [op |-> "stroke",
     points |-> [i \in 1..Len(currentPathRef) |->
                    toCanvasSpace(currentPathRef[i])],
     width |-> Scaled(currentTool.size), color |-> currentTool.color,
     alpha |-> 100]

\* handleMouseMove's last branch: the redraw, then the path on top of it
redrawWithPath ==
    redrawCanvas
    \o (IF Len(currentPathRef) > 1 THEN <<paintCurrentPath>> ELSE <<>>)

----------------------------------------------------------------------------
(* PdfUtils.exportPdfWithAnnotations: the drawing operations it issues on  *)
(* the pages of the loaded file, in the order it issues them.  The file is *)
(* given by the height of its pages; an opacity is kept in percent.        *)

\* a text placed at the canvas y, without the flip to the bottom-up axis
drawTextUnflipped(annotation, page, height) ==
    [op |-> "drawText", page |-> page, text |-> annotation.content,
     x |-> annotation.x, y |-> annotation.y,
     size |-> annotation.size * 8, color |-> annotation.color]

drawText(annotation, page, height) ==
    [op |-> "drawText", page |-> page, text |-> annotation.content,
     x |-> annotation.x, y |-> height - annotation.y,
     size |-> annotation.size * 8, color |-> annotation.color]

\* a rectangle anchored at the flipped top edge instead of the bottom edge
drawRectangleFromTop(annotation, page, height) ==
    [op |-> "drawRectangle", page |-> page,
     x |-> annotation.x, y |-> height - annotation.y,
     width |-> OrDefault(annotation, "width", 100),
     height |-> OrDefault(annotation, "height", 20),
     color |-> annotation.color, opacity |-> 30]

drawRectangle(annotation, page, height) ==
    [op |-> "drawRectangle", page |-> page,
     x |-> annotation.x,
     y |-> (height - annotation.y) - OrDefault(annotation, "height", 20),
     width |-> OrDefault(annotation, "width", 100),
     height |-> OrDefault(annotation, "height", 20),
     color |-> annotation.color, opacity |-> 30]

\* the segments from the second point on: the first segment is left out
drawLinesFromSecond(annotation, page, height) ==
    [i \in 1..(Len(annotation.points) - 2) |->
        [op |-> "drawLine", page |-> page,
         start |-> Pt(annotation.points[i + 1].x,
                      height - annotation.points[i + 1].y),
         end |-> Pt(annotation.points[i + 2].x,
                    height - annotation.points[i + 2].y),
         thickness |-> OrDefault(annotation, "size", 2),
         color |-> annotation.color]]

drawLines(annotation, page, height) ==
    [i \in 1..(Len(annotation.points) - 1) |->
        [op |-> "drawLine", page |-> page,
         start |-> Pt(annotation.points[i].x,
                      height - annotation.points[i].y),
         end |-> Pt(annotation.points[i + 1].x,
                    height - annotation.points[i + 1].y),
         thickness |-> OrDefault(annotation, "size", 2),
         color |-> annotation.color]]

\* the body of the loop over the annotations of one page
drawAnnotation(annotation, page, height) ==
    IF annotation.type = "text" /\ Has(annotation, "content")
          /\ annotation.content # ""
    THEN <<drawText(annotation, page, height)>>
    ELSE IF annotation.type = "highlight"
    THEN <<drawRectangle(annotation, page, height)>>
    ELSE IF annotation.type = "drawing" /\ Has(annotation, "points")
    THEN IF Len(annotation.points) > 1
         THEN drawLines(annotation, page, height)
         ELSE <<>>
    ELSE <<>>

RECURSIVE drawPage(_, _, _)
drawPage(pageAnnotations, page, height) ==
    IF pageAnnotations = <<>> THEN <<>>
    ELSE drawAnnotation(Head(pageAnnotations), page, height)
             \o drawPage(Tail(pageAnnotations), page, height)

\* an export that reads the size of the first page for every page
RECURSIVE drawPagesOfFirstHeight(_, _, _)
drawPagesOfFirstHeight(store, page, heights) ==
    IF page > Pages THEN <<>>
    ELSE drawPage(SelectSeq(store, LAMBDA a : a.page = page), page,
                  heights[1])
             \o drawPagesOfFirstHeight(store, page + 1, heights)

\* annotationsByPage: the groups come in the order of their page numbers,
\* and each is drawn on its page of the file, with the height of that page
RECURSIVE drawPagesOf(_, _, _)
drawPagesOf(store, page, heights) ==
    IF page > Pages THEN <<>>
    ELSE drawPage(SelectSeq(store, LAMBDA a : a.page = page), page,
                  heights[page])
             \o drawPagesOf(store, page + 1, heights)

\* the same on a file whose pages all have one height
drawPages(store, page, height) ==
    drawPagesOf(store, page, [p \in 1..Pages |-> height])

exportPdfWithAnnotations(store, height) == drawPages(store, 1, height)

MaxExportStore == 3

ExportTemplates ==
    {[type |-> "text", page |-> 1, x |-> 50, y |-> 100, content |-> "x",
      color |-> "#ef4444", size |-> 2],
     [type |-> "text", page |-> 2, x |-> 10, y |-> 10, content |-> "x",
      color |-> "#3b82f6", size |-> 4],
     [type |-> "highlight", page |-> 1, x |-> 10, y |-> 10, width |-> 50,
      height |-> 30, color |-> "#ef4444", size |-> 2],
     [type |-> "highlight", page |-> 2, x |-> 0, y |-> 0, width |-> 6,
      height |-> 6, color |-> "#eab308", size |-> 1],
     [type |-> "drawing", page |-> 1, x |-> 0, y |-> 0,
      points |-> <<Pt(0, 0), Pt(6, 6)>>, color |-> "#ef4444", size |-> 1],
     [type |-> "drawing", page |-> 2, x |-> 4, y |-> 4,
      points |-> <<Pt(4, 4), Pt(6, 6), Pt(0, 6)>>, color |-> "#22c55e",
      size |-> 4]}

PageHeights == {600, 800}

ExportStores ==
    UNION {[1..n -> ExportTemplates] : n \in 0..MaxExportStore}

InitExport ==
    /\ \E templates \in ExportStores :
           /\ annotations = WithIds(templates)
           /\ nextId = Len(templates) + 1
    /\ currentTool = [type |-> "select", color |-> "#ef4444", size |-> 2]
    /\ document = [file |-> OpenedFile, type |-> "pdf", pages |-> Pages,
                       currentPage |-> 1, zoom4 |-> 4]
    /\ panOffset = Pt(0, 0)
    /\ isPanning = FALSE
    /\ panStart = Pt(0, 0)
    /\ selectedAnnotation = NoId
    /\ isDragging = FALSE
    /\ dragStart = Null
    /\ originalPosition = Null
    /\ isHighlighting = FALSE
    /\ highlightStart = Null
    /\ currentHighlight = Null
    /\ isDrawingRef = FALSE
    /\ currentPathRef = <<>>
    /\ pressed = FALSE
    /\ unpaired = 0
    /\ hitPoint = Null
    /\ lastCall = Null
    /\ result = Null
    /\ LoadIdle(OpenedFile)

Export(height) ==
    /\ lastCall' = [op |-> "export", height |-> height]
    /\ result' = [ops |-> exportPdfWithAnnotations(annotations, height)]
    /\ UNCHANGED <<storeVars, viewVars, layerVars, pointerVars, hitPoint,
                   loadVars>>

NextExport == \E height \in PageHeights : Export(height)

ExportSpec == InitExport /\ [][NextExport]_vars

(* The export on files whose pages differ in height, and on stores that    *)
(* may hold a text without content                                         *)

FileHeights ==
    {[p \in 1..Pages |-> 600],
     [p \in 1..Pages |-> IF p = 1 THEN 600 ELSE 800],
     [p \in 1..Pages |-> IF p = 1 THEN 800 ELSE 600]}

PageExportTemplates ==
    ExportTemplates
    \cup {[type |-> "text", page |-> 1, x |-> 50, y |-> 100, content |-> "",
           color |-> "#ef4444", size |-> 2]}

PageExportStores ==
    UNION {[1..n -> PageExportTemplates] : n \in 0..MaxExportStore}

InitPageExport ==
    /\ \E templates \in PageExportStores :
           /\ annotations = WithIds(templates)
           /\ nextId = Len(templates) + 1
    /\ currentTool = [type |-> "select", color |-> "#ef4444", size |-> 2]
    /\ document = [file |-> OpenedFile, type |-> "pdf", pages |-> Pages,
                   currentPage |-> 1, zoom4 |-> 4]
    /\ panOffset = Pt(0, 0)
    /\ isPanning = FALSE
    /\ panStart = Pt(0, 0)
    /\ selectedAnnotation = NoId
    /\ isDragging = FALSE
    /\ dragStart = Null
    /\ originalPosition = Null
    /\ isHighlighting = FALSE
    /\ highlightStart = Null
    /\ currentHighlight = Null
    /\ isDrawingRef = FALSE
    /\ currentPathRef = <<>>
    /\ pressed = FALSE
    /\ unpaired = 0
    /\ hitPoint = Null
    /\ lastCall = Null
    /\ result = Null
    /\ LoadIdle(OpenedFile)

ExportPages(heights) ==
    /\ lastCall' = [op |-> "export", heights |-> heights]
    /\ result' = [ops |-> drawPagesOf(annotations, 1, heights)]
    /\ UNCHANGED <<storeVars, viewVars, layerVars, pointerVars, hitPoint,
                   loadVars>>

NextPageExport == \E heights \in FileHeights : ExportPages(heights)

PageExportSpec == InitPageExport /\ [][NextPageExport]_vars

----------------------------------------------------------------------------
(* The gestures under changes of the tool's type, colour and size: what a  *)
(* setTool call may be given, one field as the sidebar does or several     *)

ToolPartials ==
    {[type |-> "text"], [type |-> "highlight"], [type |-> "draw"],
     [color |-> "#3b82f6"], [color |-> "#ef4444"],
     [size |-> 4], [color |-> "#22c55e", size |-> 1]}

NextTool ==
    \/ \E e \in DownPoints : MouseDown(e, [text |-> "x"])
    \/ \E e \in MovePoints : MouseMove(e)
    \/ MouseUp
    \/ \E partial \in ToolPartials : SetTool(partial)

ToolSpec == Init /\ [][NextTool]_vars

----------------------------------------------------------------------------
(* useDocument.loadDocument: a call for a PDF runs up to the parsing of   *)
(* its file and goes on when the parsing ends, and the parsings of several *)
(* calls end in any order; a call for another file runs to its end at      *)
(* once.  A file with the fault "parse" cannot be read by pdf.js, one with *)
(* "encrypted" or "save" is read by pdf.js but cannot be read, or written, *)
(* by pdf-lib.                                                             *)

MaxLoads == 2

\* a file that is no PDF: its document has one page
OtherFile(name, ext) ==
    [name |-> name, ext |-> ext, pages |-> 1, height |-> 600,
     page |-> NativePage, fault |-> "none"]

LoadFiles ==
    {PdfFile("a.pdf", Pages, 600, NativePage, "none"),
     PdfFile("b.pdf", 1, 800, NativePage, "none"),
     PdfFile("c.pdf", 1, 600, NativePage, "parse"),
     OtherFile("w.docx", ".docx"),
     OtherFile("x.bin", ".bin")}

\* the document type loadDocument finds for a file, "none" if it finds none
docType(file) ==
    CASE file.ext = ".pdf" -> "pdf"
      [] file.ext = ".docx" -> "docx"
      [] file.ext = ".xlsx" -> "xlsx"
      [] file.ext = ".pptx" -> "pptx"
      [] OTHER -> "none"

RemoveAt(s, i) == SubSeq(s, 1, i - 1) \o SubSeq(s, i + 1, Len(s))

\* PdfEditor shows a spinner while loading is set, the error screen while
\* error is set and DocumentViewer another viewer for another type than pdf:
\* the PdfViewer's state and its layer's state are gone with it and start
\* afresh when it is shown again
ViewerUnmounted ==
    /\ panOffset' = Pt(0, 0)
    /\ isPanning' = FALSE
    /\ panStart' = Pt(0, 0)
    /\ selectedAnnotation' = NoId
    /\ isDragging' = FALSE
    /\ dragStart' = Null
    /\ originalPosition' = Null
    /\ isHighlighting' = FALSE
    /\ highlightStart' = Null
    /\ currentHighlight' = Null
    /\ isDrawingRef' = FALSE
    /\ currentPathRef' = <<>>
    /\ pressed' = FALSE

\* a failed load that closes the document
loadFailedClosingDocument(message) ==
    /\ error' = [message |-> message]
    /\ document' = Null
    /\ pdfProxy' = Null

\* loadDocument's catch block
loadFailed(message) ==
    /\ error' = [message |-> message]
    /\ UNCHANGED <<document, pdfProxy>>

\* a load of a file that is no PDF which keeps the proxy of the last PDF
loadOtherKeepingProxy(file) ==
    /\ document' = [file |-> file, type |-> docType(file),
                    pages |-> 1, currentPage |-> 1, zoom4 |-> 4]
    /\ UNCHANGED pdfProxy

\* loadDocument's branches for .docx, .xlsx and .pptx, and what follows them
loadOther(file) ==
    /\ pdfProxy' = Null
    /\ document' = [file |-> file, type |-> docType(file),
                    pages |-> 1, currentPage |-> 1, zoom4 |-> 4]

\* loadDocument up to `await PdfUtils.loadPdf(file)` for a PDF, the whole of
\* it for another file
RequestLoad(file) ==
    /\ lastCall' = [op |-> "load", file |-> file]
    /\ ViewerUnmounted
    /\ CASE docType(file) = "pdf" ->
              /\ Len(loads) < MaxLoads
              /\ loading' = TRUE
              /\ error' = Null
              /\ loads' = Append(loads, file)
              /\ UNCHANGED <<document, pdfProxy>>
         [] docType(file) = "none" ->
              /\ loading' = FALSE
              /\ loadFailed("Unsupported file type")
              /\ UNCHANGED loads
         [] OTHER ->
              /\ loading' = FALSE
              /\ error' = Null
              /\ loadOther(file)
              /\ UNCHANGED loads
    /\ UNCHANGED <<storeVars, unpaired, hitPoint, result>>

\* loadDocument from the end of the parsing on, and the viewer's effects: a
\* viewer that is shown keeps its pan offset when the new page is larger
\* than its container
CompleteLoad(i) ==
    /\ i \in 1..Len(loads)
    /\ loads' = RemoveAt(loads, i)
    /\ loading' = FALSE
    /\ IF loads[i].fault = "parse"
       THEN /\ loadFailed("Invalid PDF structure")
            /\ ViewerUnmounted
       ELSE /\ pdfProxy' = loads[i]
            /\ document' = [file |-> loads[i], type |-> "pdf",
                            pages |-> loads[i].pages,
                            currentPage |-> 1, zoom4 |-> 4]
            /\ panOffset' = IF ZoomedInOf(loads[i], 4) THEN panOffset
                                                       ELSE Pt(0, 0)
            /\ UNCHANGED <<error, isPanning, panStart, layerVars, pressed>>
    /\ UNCHANGED <<storeVars, unpaired, callVars>>

(* useDocument.setZoom, zoomIn and zoomOut, called with any value *)

ZoomInputs == {1, 2, 7, 12, 13}

SetZoom(zoom4) ==
    /\ document # Null
    /\ setZoom(zoom4)
    /\ UNCHANGED <<storeVars, isPanning, panStart, layerVars, pointerVars,
                   callVars, loadVars>>

zoomIn ==
    /\ document # Null
    /\ setZoom(Min(document.zoom4 + 1, 12))
    /\ UNCHANGED <<storeVars, isPanning, panStart, layerVars, pointerVars,
                   callVars, loadVars>>

zoomOut ==
    /\ document # Null
    /\ setZoom(Max(document.zoom4 - 1, 2))
    /\ UNCHANGED <<storeVars, isPanning, panStart, layerVars, pointerVars,
                   callVars, loadVars>>

\* the editor before any file is opened
InitLoad ==
    /\ annotations = <<>>
    /\ currentTool = [type |-> "select", color |-> "#ef4444", size |-> 2]
    /\ nextId = 1
    /\ document = Null
    /\ panOffset = Pt(0, 0)
    /\ isPanning = FALSE
    /\ panStart = Pt(0, 0)
    /\ selectedAnnotation = NoId
    /\ isDragging = FALSE
    /\ dragStart = Null
    /\ originalPosition = Null
    /\ isHighlighting = FALSE
    /\ highlightStart = Null
    /\ currentHighlight = Null
    /\ isDrawingRef = FALSE
    /\ currentPathRef = <<>>
    /\ pressed = FALSE
    /\ unpaired = 0
    /\ hitPoint = Null
    /\ lastCall = Null
    /\ result = Null
    /\ LoadIdle(Null)

NextLoad ==
    \/ \E file \in LoadFiles : RequestLoad(file)
    \/ \E i \in 1..MaxLoads : CompleteLoad(i)
    \/ \E zoom4 \in ZoomInputs : SetZoom(zoom4)
    \/ zoomIn
    \/ zoomOut

LoadSpec == InitLoad /\ [][NextLoad]_vars

(* The editor with a file opened, files loaded over it and the viewer used *)
(* between the loads: pointer events reach the viewer while it is shown    *)

ReloadFiles ==
    {PdfFile("a.pdf", Pages, 600, NativePage, "none"),
     PdfFile("b.pdf", 1, 800, NativePage, "none"),
     PdfFile("l.pdf", 1, 600, LargePage, "none"),
     PdfFile("m.pdf", Pages, 600, LargePage, "none"),
     PdfFile("c.pdf", 1, 600, NativePage, "parse"),
     OtherFile("x.bin", ".bin")}

ReloadDownPoints == {Pt(8, 8)}
ReloadMovePoints == {Pt(4, 4)}

\* PdfEditor renders the PdfViewer
Shown ==
    /\ ~loading
    /\ error = Null
    /\ document # Null
    /\ document.type = "pdf"

NextReload ==
    \/ \E file \in ReloadFiles : RequestLoad(file)
    \/ \E i \in 1..MaxLoads : CompleteLoad(i)
    \/ Shown /\ \E e \in ReloadDownPoints : MouseDown(e, [text |-> "x"])
    \/ Shown /\ \E e \in ReloadMovePoints : MouseMove(e)
    \/ Shown /\ MouseUp
    \/ Shown /\ NextPage
    \/ error = Null /\ SetTool([type |-> "text"])

ReloadSpec == Init /\ [][NextReload]_vars

----------------------------------------------------------------------------
(* PdfEditor.handleDownload, DocumentConverter.exportDocument and           *)
(* PdfUtils.exportPdfWithAnnotations on the file of the active document     *)

\* the editor shows the "Convert to PDF" button for other files than PDFs
DownloadFormats == {"original"}

\* an export that flips the y axis on the height of the page as rendered
exportDocumentOfRenderedPage(doc, store, format) ==
    [saved |-> exportPdfWithAnnotations(store,
                                        (doc.file.height * doc.zoom4) \div 4),
     as |-> format]

exportDocument(doc, store, format) ==
    IF doc.file.fault = "encrypted"
    THEN [error |-> "PDFDocument.load"]
    ELSE IF \E i \in 1..Len(store) : store[i].page \notin 1..doc.file.pages
    THEN [error |-> "getPage"]
    ELSE IF doc.file.fault = "save"
    THEN [error |-> "save"]
    ELSE [saved |-> exportPdfWithAnnotations(store, doc.file.height),
          as |-> format]

\* a failed export that empties the store
handleDownloadDroppingStore(format) ==
    /\ document # Null
    /\ lastCall' = [op |-> "download", format |-> format]
    /\ result' = exportDocument(document, annotations, format)
    /\ annotations' = IF Has(result', "error") THEN <<>> ELSE annotations
    /\ UNCHANGED <<currentTool, nextId, viewVars, layerVars, pointerVars,
                   hitPoint, loadVars>>

handleDownload(format) ==
    /\ document # Null
    /\ lastCall' = [op |-> "download", format |-> format]
    /\ result' = exportDocument(document, annotations, format)
    /\ UNCHANGED <<storeVars, viewVars, layerVars, pointerVars, hitPoint,
                   loadVars>>

(* The viewer at zoom 2.0 on a file that exports or fails to, the store    *)
(* empty or holding a text of page 2 placed before the file was opened     *)

DownloadFiles ==
    {OpenedFile,
     PdfFile("b.pdf", 1, 800, NativePage, "none"),
     PdfFile("d.pdf", Pages, 600, NativePage, "encrypted"),
     PdfFile("e.pdf", Pages, 600, NativePage, "save")}

DownloadStores ==
    {<<>>,
     <<[id |-> 1, type |-> "text", page |-> 2, x |-> 8, y |-> 8,
        content |-> "x", color |-> "#ef4444", size |-> 2]>>}

InitDownload ==
    /\ \E store \in DownloadStores :
           /\ annotations = store
           /\ nextId = Len(store) + 1
    /\ currentTool = [type |-> "select", color |-> "#ef4444", size |-> 2]
    /\ \E file \in DownloadFiles :
           /\ document = [file |-> file, type |-> "pdf", pages |-> file.pages,
                          currentPage |-> 1, zoom4 |-> 8]
           /\ LoadIdle(file)
    /\ panOffset = Pt(0, 0)
    /\ isPanning = FALSE
    /\ panStart = Pt(0, 0)
    /\ selectedAnnotation = NoId
    /\ isDragging = FALSE
    /\ dragStart = Null
    /\ originalPosition = Null
    /\ isHighlighting = FALSE
    /\ highlightStart = Null
    /\ currentHighlight = Null
    /\ isDrawingRef = FALSE
    /\ currentPathRef = <<>>
    /\ pressed = FALSE
    /\ unpaired = 0
    /\ hitPoint = Null
    /\ lastCall = Null
    /\ result = Null

DownloadMovePoints == {Pt(4, 4)}

NextDownload ==
    \/ \E e \in ViewDownPoints : MouseDown(e, [text |-> "x"])
    \/ \E e \in DownloadMovePoints : MouseMove(e)
    \/ MouseUp
    \/ \E t \in ViewTools : SetTool([type |-> t])
    \/ ZoomIn
    \/ ZoomOut
    \/ NextPage
    \/ PreviousPage
    \/ \E format \in DownloadFormats : handleDownload(format)

DownloadSpec == InitDownload /\ [][NextDownload]_vars

----------------------------------------------------------------------------
(* Claims *)


\* C1: the pointer-up of a highlight gesture (highlight tool, a live
\* rectangle under construction) appends exactly one highlight carrying the
\* rectangle's x, y, width and height when width > 5 and height > 5, and
\* leaves the store unchanged otherwise (so 4 x 4 and 5 x 5 are never added
\* and 6 x 6 is).
C1_HighlightCommit ==
    [][(MouseUp /\ currentTool.type = "highlight" /\ isHighlighting
            /\ currentHighlight # Null)
        => IF currentHighlight.width > 5 /\ currentHighlight.height > 5
           THEN /\ Len(annotations') = Len(annotations) + 1
                /\ Front(annotations') = annotations
                /\ Last(annotations').type = "highlight"
                /\ Last(annotations').x = currentHighlight.x
                /\ Last(annotations').y = currentHighlight.y
                /\ Last(annotations').width = currentHighlight.width
                /\ Last(annotations').height = currentHighlight.height
           ELSE annotations' = annotations]_vars

\* C1 witness: a 6 x 6 drag was committed, and a 5 x 5 rectangle was live
\* when a gesture ended before
C1_Witness ==
    /\ Len(annotations) = 2
    /\ annotations[1].type = "highlight"
    /\ annotations[1].width = 6 /\ annotations[1].height = 6
    /\ isHighlighting
    /\ currentHighlight # Null
    /\ currentHighlight.width = 5 /\ currentHighlight.height = 5

\* C2: the pointer-up of a draw gesture (draw tool, a path started by the
\* pointer-down) adds no annotation when the path holds exactly 1 point, and
\* for a path of n >= 2 points appends exactly one drawing whose points are
\* the path and whose origin is the first point.
C2_DrawCommit ==
    [][(MouseUp /\ currentTool.type = "draw" /\ isDrawingRef
            /\ Len(currentPathRef) >= 1)
        => IF Len(currentPathRef) = 1
           THEN annotations' = annotations
           ELSE /\ Len(annotations') = Len(annotations) + 1
                /\ Front(annotations') = annotations
                /\ Last(annotations').type = "drawing"
                /\ Last(annotations').points = currentPathRef
                /\ Last(annotations').x = currentPathRef[1].x
                /\ Last(annotations').y = currentPathRef[1].y]_vars

\* C3: every stored annotation is a text, a highlight or a drawing, on a
\* page >= 1; a drawing has at least 2 points, a highlight has width and
\* height above 5, a text has non-empty content.
C3_StoreWellFormed ==
    \A i \in 1..Len(annotations) :
        LET a == annotations[i] IN
        /\ a.type \in {"text", "highlight", "drawing"}
        /\ a.page >= 1
        /\ a.type = "drawing" => Has(a, "points") /\ Len(a.points) >= 2
        /\ a.type = "highlight" =>
               /\ Has(a, "width") /\ a.width > 5
               /\ Has(a, "height") /\ a.height > 5
        /\ a.type = "text" => Has(a, "content") /\ a.content # ""

\* C3 witness: the store holds a drawing and a highlight that the gestures
\* committed
C3_Witness ==
    /\ Len(annotations) = 2
    /\ annotations[1].type = "drawing"
    /\ annotations[2].type = "highlight"

\* C4: a select-tool drag keeps the store's records and their order: the
\* pointer-down changes no record, a pointer-move while dragging changes
\* only the origin of the selected record, to originalPosition + (pointer -
\* anchor), and the pointer-up that ends the drag changes no record.
C4_DragFrame ==
    [][/\ (\E e \in DownPoints, prompted \in PromptResults :
               MouseDown(e, prompted) /\ currentTool.type = "select")
           => annotations' = annotations
       /\ \A e \in MovePoints :
            (MouseMove(e) /\ isDragging /\ selectedAnnotation # NoId
                 /\ dragStart # Null /\ originalPosition # Null)
            => /\ Len(annotations') = Len(annotations)
               /\ \A i \in 1..Len(annotations) :
                    IF annotations[i].id = selectedAnnotation
                    THEN /\ SameBut(annotations'[i], annotations[i], {"x", "y"})
                         /\ annotations'[i].x = originalPosition.x
                              + (getCanvasCoordinates(e).x - dragStart.x)
                         /\ annotations'[i].y = originalPosition.y
                              + (getCanvasCoordinates(e).y - dragStart.y)
                    ELSE annotations'[i] = annotations[i]
       /\ (MouseUp /\ isDragging) => annotations' = annotations]_vars

\* C5: a pointer-down with the eraser tool on a point where the hit test
\* finds an annotation removes that annotation, and only it, from the store.
C5_EraserRemoves ==
    [][\A e \in DownPoints, prompted \in PromptResults :
          LET hit == findAnnotationAtPoint(layerAnnotations,
                         document.currentPage, getCanvasCoordinates(e))
          IN (MouseDown(e, prompted) /\ currentTool.type = "eraser"
                  /\ hit # Null)
             => /\ Len(annotations') = Len(annotations) - 1
                /\ annotations' = removeAnnotation(annotations, hit.id)]_vars

\* C6: the hit test returns a text annotation whenever a text annotation of
\* the page contains the point, also when a highlight containing the point
\* was inserted later; it returns a highlight only when no text of the page
\* contains the point.
C6_TextFirst ==
    hitPoint # Null =>
        LET texts == {i \in 1..Len(annotations) :
                         /\ annotations[i].page = document.currentPage
                         /\ annotations[i].type = "text"
                         /\ isPointInTextAnnotation(hitPoint, annotations[i])}
        IN /\ texts # {} => result # Null /\ result.type = "text"
                              /\ result.id \in {annotations[i].id : i \in texts}
           /\ (result # Null /\ result.type = "highlight") => texts = {}

\* C6 witness: a text was returned although a highlight inserted after it
\* contains the point
C6_Witness ==
    /\ hitPoint # Null
    /\ result # Null
    /\ result.type = "text"
    /\ \E i \in 1..Len(annotations) :
          /\ annotations[i].id > result.id
          /\ annotations[i].page = document.currentPage
          /\ annotations[i].type = "highlight"
          /\ isPointInHighlight(hitPoint, annotations[i])

\* the store holds exactly the highlight (0, 0, 100, 20) and a text "x" at
\* (10, 10), in either order, both on the page shown
ExampleStore ==
    /\ Len(annotations) = 2
    /\ \A i \in 1..2 : annotations[i].page = document.currentPage
    /\ \E h \in 1..2 :
          /\ annotations[h].type = "highlight"
          /\ annotations[h].x = 0 /\ annotations[h].y = 0
          /\ annotations[h].width = 100 /\ annotations[h].height = 20
          /\ annotations[3 - h].type = "text"
          /\ annotations[3 - h].content = "x"
          /\ annotations[3 - h].x = 10 /\ annotations[3 - h].y = 10
          /\ annotations[3 - h].size \in {1, 2, 4}

\* C7 as stated: with the highlight (0, 0, 100, 20) and the text "x" at
\* (10, 10), the hit test at (15, 12) returns the text.
C7_ExampleAsStated ==
    (ExampleStore /\ hitPoint = Pt(15, 12))
        => result # Null /\ result.type = "text"

\* C7 amended: with the highlight (0, 0, 100, 20) and the text "x" at
\* (10, 10), the hit test at (15, 12), below the text's baseline, returns the
\* highlight, and the hit test at (15, 10), on the baseline, returns the text.
C7_ExampleBelowBaseline ==
    /\ (ExampleStore /\ hitPoint = Pt(15, 12))
           => result # Null /\ result.type = "highlight"
    /\ (ExampleStore /\ hitPoint = Pt(15, 10))
           => result # Null /\ result.type = "text"

\* C7 witness: the example store, hit at (15, 12), with the highlight returned
C7_Witness ==
    /\ ExampleStore
    /\ hitPoint = Pt(15, 12)
    /\ result # Null
    /\ result.type = "highlight"
    /\ annotations[2].type = "text"

\* the records of the page shown, of the given kinds, whose bounds contain
\* the point
Containing(kinds, point) ==
    {i \in 1..Len(annotations) :
        /\ annotations[i].page = document.currentPage
        /\ annotations[i].type \in kinds
        /\ \/ annotations[i].type = "text"
              /\ isPointInTextAnnotation(point, annotations[i])
           \/ annotations[i].type = "highlight"
              /\ isPointInHighlight(point, annotations[i])}

Latest(S) == CHOOSE i \in S : \A j \in S : i >= j

\* C8 as stated: the hit test returns the most recently inserted of all the
\* texts and highlights of the page that contain the point.
C8_LastInsertedOverall ==
    hitPoint # Null =>
        LET all == Containing({"text", "highlight"}, hitPoint)
        IN result = IF all = {} THEN Null ELSE annotations[Latest(all)]

\* C8 amended: the hit test returns the most recently inserted text of the
\* page that contains the point if there is one, otherwise the most recently
\* inserted highlight of the page that contains it, otherwise nothing.
C8_LastInsertedWithinKind ==
    hitPoint # Null =>
        LET texts == Containing({"text"}, hitPoint)
            highlights == Containing({"highlight"}, hitPoint)
        IN result = IF texts # {} THEN annotations[Latest(texts)]
                    ELSE IF highlights # {} THEN annotations[Latest(highlights)]
                    ELSE Null

\* C8 witness: two texts contain the point and the later one was returned,
\* although a highlight inserted after both contains the point too
C8_Witness ==
    /\ hitPoint # Null
    /\ Len(annotations) = 3
    /\ Containing({"text"}, hitPoint) = {1, 2}
    /\ Containing({"highlight"}, hitPoint) = {3}
    /\ result = annotations[2]

\* C9: the hit test returns no drawing, no drawing is ever the selected
\* annotation, and no step changes, moves or removes a drawing of the store.
C9_DrawingsUntouched ==
    /\ [](\A i \in 1..Len(annotations) :
             annotations[i].type = "drawing"
             => /\ selectedAnnotation # annotations[i].id
                /\ \A point \in DownPoints \cup MovePoints :
                      findAnnotationAtPoint(layerAnnotations,
                          document.currentPage, point) # annotations[i])
    /\ [][\A i \in 1..Len(annotations) :
             annotations[i].type = "drawing"
             => /\ i <= Len(annotations')
                /\ annotations'[i] = annotations[i]]_vars

\* C9 witness: the select tool was pressed on the origin of the only record,
\* a drawing, and nothing is selected
C9_Witness ==
    /\ Len(annotations) = 1
    /\ annotations[1].type = "drawing"
    /\ annotations[1].x = 0 /\ annotations[1].y = 0
    /\ annotations[1].page = document.currentPage
    /\ currentTool.type = "select"
    /\ pressed
    /\ ~isDrawingRef
    /\ selectedAnnotation = NoId

C11_MissingIdNoOp ==
    [][(/\ Has(lastCall', "id")
        /\ lastCall'.op \in {"update", "remove"}
        /\ lastCall'.id \notin Ids(annotations))
       => annotations' = annotations /\ result' = Null]_vars

\* C11 witness: the last call was an update of an id that was handed out
\* and is no longer in the store, and the store still holds a record
C11_Witness ==
    /\ Has(lastCall, "op")
    /\ lastCall.op = "update"
    /\ lastCall.id < nextId
    /\ lastCall.id \notin Ids(annotations)
    /\ Len(annotations) >= 1

\* C12: no update, whatever fields it is given, changes the id, the kind or
\* the page of a record of the store.
C12_UpdateKeepsIdentity ==
    [][\A id \in 1..(MaxIds + 1), updates \in IdentityUpdates :
          StoreUpdate(id, updates)
          => /\ Len(annotations') = Len(annotations)
             /\ \A i \in 1..Len(annotations) :
                   /\ annotations'[i].id = annotations[i].id
                   /\ annotations'[i].type = annotations[i].type
                   /\ annotations'[i].page = annotations[i].page]_vars

\* the session holds no gesture
Idle ==
    /\ ~isDragging
    /\ dragStart = Null
    /\ originalPosition = Null
    /\ ~isHighlighting
    /\ highlightStart = Null
    /\ currentHighlight = Null
    /\ ~isDrawingRef
    /\ currentPathRef = <<>>

\* C13: a gesture interrupted before its pointer-up, by the pointer leaving
\* the surface or by a change of tool, is aborted: the step leaves the
\* session idle, and the next pointer-up commits no annotation.
C13_InterruptedAborts ==
    [][/\ (\E t \in ToolTypes \ {currentTool.type} : SetTool([type |-> t]))
           => Idle'
       /\ MouseLeave => Idle'
       /\ (MouseUp /\ ~pressed) => annotations' = annotations]_vars

\* C14: at most one of dragging, highlighting and drawing (a path in
\* progress) is active.
C14_OneGesture ==
    LET drawing == isDrawingRef /\ currentPathRef # <<>>
    IN /\ ~(isDragging /\ isHighlighting)
       /\ ~(isDragging /\ drawing)
       /\ ~(isHighlighting /\ drawing)

\* C15: every pointer-up leaves the session idle and keeps the selected
\* annotation.
C15_PointerUpResets ==
    [][MouseUp => Idle' /\ selectedAnnotation' = selectedAnnotation]_vars

DocPoints == {Pt(0, 0), Pt(2, 2), Pt(4, 4)}

\* C16: at every zoom and pan, the pointer handler maps the position of a
\* painted point, toCanvasSpace(P) + panOffset, back to P.
C16_RoundTrip ==
    \A P \in DocPoints :
        LET e == Pt(toCanvasSpace(P).x + panOffset.x,
                    toCanvasSpace(P).y + panOffset.y)
        IN \* the points whose canvas position is a whole number of pixels
           ((P.x * document.zoom4) % 4 = 0 /\ (P.y * document.zoom4) % 4 = 0)
           => Exact(e) /\ getCanvasCoordinates(e) = P

\* C17: a text created by a pointer-down is stored at the document-space
\* point that is painted under the pointer, whatever the zoom and the pan,
\* and no zoom, pan or page step changes a record of the store.
C17_ViewIndependent ==
    [][/\ \A e \in ViewDownPoints :
            (MouseDown(e, [text |-> "x"]) /\ currentTool.type = "text")
            => /\ toCanvasSpace(Last(annotations')).x + canvasRect.x = e.x
               /\ toCanvasSpace(Last(annotations')).y + canvasRect.y = e.y
       /\ (ZoomIn \/ ZoomOut \/ NextPage \/ PreviousPage \/ MouseLeave)
            => annotations' = annotations
       /\ \A e \in ViewMovePoints :
            (MouseMove(e) /\ ~isDragging) => annotations' = annotations]_vars

\* the operations of one kind that the last export issued on a page, and
\* the records of one kind that the store holds for that page, both in order
ExportedOn(kind, page) ==
    SelectSeq(result.ops, LAMBDA o : o.op = kind /\ o.page = page)

StoredOn(type, page) ==
    SelectSeq(annotations, LAMBDA a : a.type = type /\ a.page = page)

\* C18: the export issues exactly one text operation for every text
\* annotation, at (x, H - y) on its page of height H, with font size
\* size * 8; a text at (50, 100) on a page of height 800 is placed at y = 700.
C18_TextExport ==
    Has(result, "ops") =>
        \A page \in 1..Pages :
            LET texts == StoredOn("text", page)
                ops == ExportedOn("drawText", page)
            IN /\ Len(ops) = Len(texts)
               /\ \A i \in 1..Len(texts) :
                     /\ ops[i].text = texts[i].content
                     /\ ops[i].x = texts[i].x
                     /\ ops[i].y = lastCall.height - texts[i].y
                     /\ ops[i].size = texts[i].size * 8
                     /\ (texts[i].y = 100 /\ lastCall.height = 800)
                            => ops[i].y = 700

\* C18 witness: a page of height 800 was exported with the text at (50, 100)
\* among three records, and a text operation at (50, 700) was issued
C18_Witness ==
    /\ Has(result, "ops")
    /\ lastCall.height = 800
    /\ Len(annotations) = 3
    /\ \E i \in 1..3 :
          /\ annotations[i].type = "text"
          /\ annotations[i].x = 50 /\ annotations[i].y = 100
    /\ \E k \in 1..Len(result.ops) :
          /\ result.ops[k].op = "drawText"
          /\ result.ops[k].x = 50 /\ result.ops[k].y = 700
          /\ result.ops[k].size = 16

\* C19: the export issues exactly one filled rectangle for every highlight,
\* at (x, H - y - h) with size w x h and 30% opacity; a store that holds only
\* the highlight (10, 10, 50, 30) on page 1 is exported as exactly the one
\* rectangle (10, H - 40, 50, 30).
C19_HighlightExport ==
    Has(result, "ops") =>
        /\ \A page \in 1..Pages :
              LET highlights == StoredOn("highlight", page)
                  ops == ExportedOn("drawRectangle", page)
              IN /\ Len(ops) = Len(highlights)
                 /\ \A i \in 1..Len(highlights) :
                       /\ ops[i].x = highlights[i].x
                       /\ ops[i].y = lastCall.height - highlights[i].y
                                         - highlights[i].height
                       /\ ops[i].width = highlights[i].width
                       /\ ops[i].height = highlights[i].height
                       /\ ops[i].opacity = 30
        /\ (/\ Len(annotations) = 1
            /\ annotations[1].type = "highlight"
            /\ annotations[1].page = 1
            /\ annotations[1].x = 10 /\ annotations[1].y = 10
            /\ annotations[1].width = 50 /\ annotations[1].height = 30)
           => /\ Len(result.ops) = 1
              /\ result.ops[1].op = "drawRectangle"
              /\ result.ops[1].page = 1
              /\ result.ops[1].x = 10
              /\ result.ops[1].y = lastCall.height - 40
              /\ result.ops[1].width = 50
              /\ result.ops[1].height = 30
              /\ result.ops[1].opacity = 30

\* C19 witness: the store of the example was exported
C19_Witness ==
    /\ Has(result, "ops")
    /\ Len(annotations) = 1
    /\ annotations[1].type = "highlight"
    /\ annotations[1].x = 10 /\ annotations[1].width = 50
    /\ Len(result.ops) = 1
    /\ result.ops[1].y = 560

\* the segments of the first k drawings of a sequence
RECURSIVE SegmentsUpTo(_, _)
SegmentsUpTo(drawings, k) ==
    IF k = 0 THEN 0
    ELSE SegmentsUpTo(drawings, k - 1) + Len(drawings[k].points) - 1

\* C20: the export issues, for every drawing of n points, exactly n - 1
\* line segments in path order, the i-th from (p_i.x, H - p_i.y) to
\* (p_i+1.x, H - p_i+1.y), each with the drawing's size as stroke width.
C20_DrawingExport ==
    Has(result, "ops") =>
        \A page \in 1..Pages :
            LET drawings == StoredOn("drawing", page)
                ops == ExportedOn("drawLine", page)
            IN /\ Len(ops) = SegmentsUpTo(drawings, Len(drawings))
               /\ \A k \in 1..Len(drawings) :
                     \A i \in 1..(Len(drawings[k].points) - 1) :
                         LET o == ops[SegmentsUpTo(drawings, k - 1) + i]
                             from == drawings[k].points[i]
                             to == drawings[k].points[i + 1]
                         IN /\ o.start = Pt(from.x, lastCall.height - from.y)
                            /\ o.end = Pt(to.x, lastCall.height - to.y)
                            /\ o.thickness = drawings[k].size

\* C20 witness: a drawing of three points was exported after another record
\* of its page, as two segments
C20_Witness ==
    /\ Has(result, "ops")
    /\ Len(annotations) = 2
    /\ annotations[1].page = 2
    /\ annotations[2].type = "drawing"
    /\ Len(annotations[2].points) = 3
    /\ Len(ExportedOn("drawLine", 2)) = 2
    /\ Len(result.ops) = 3


\* C21: an export is independent of the view state: on the same store and
\* file, the export made under the current zoom and page issues the same
\* drawing operations as an export made under any other zoom and page (the
\* pan offset is no input of the export at all).  OtherZooms are the zooms
\* compared with.
OtherZooms == {2, 4, 8, 12}

\* a step that is a download (a download that repeats the last call with the
\* last result is a step that changes nothing)
Downloads ==
    /\ Has(lastCall', "format")
    /\ <<lastCall', result'>> # <<lastCall, result>>

C21_ExportViewIndependent ==
    [][Downloads =>
          \A zoom4 \in OtherZooms, page \in 1..Pages :
              result' = exportDocument(
                            [document EXCEPT !.zoom4 = zoom4,
                                             !.currentPage = page],
                            annotations, lastCall'.format)]_vars

\* an export that drew something, from a view that is zoomed, panned and on
\* the second page
C21_Witness ==
    /\ Has(lastCall, "format")
    /\ Has(result, "saved")
    /\ Len(result.saved) > 0
    /\ document.zoom4 # 4
    /\ document.currentPage = 2
    /\ panOffset # Pt(0, 0)

\* the conditions under which pdf-lib throws during an export
ExportThrows ==
    \/ document.file.fault \in {"encrypted", "save"}
    \/ \E i \in 1..Len(annotations) :
           annotations[i].page \notin 1..document.file.pages

\* C22: an export, succeeding or failing, leaves the store, the selection,
\* the tool and the view state unchanged; a failure (load, page lookup or
\* save throwing) comes back as an error, and the export can be called again
\* on the same store.
C22_ExportLeavesState ==
    /\ [](\A format \in DownloadFormats : ENABLED handleDownload(format))
    /\ [][Downloads =>
             /\ UNCHANGED <<annotations, nextId, selectedAnnotation,
                            currentTool, viewVars>>
             /\ Has(result', "error") <=> ExportThrows
             /\ Has(result', "saved") <=> ~ExportThrows]_vars

\* a failed export with records in the store and one of them selected
C22_Witness ==
    /\ Has(lastCall, "format")
    /\ Has(result, "error")
    /\ annotations # <<>>
    /\ selectedAnnotation \in Ids(annotations)


\* C23: once every load has completed, the active document and its PDF
\* proxy are those of the most recently requested load (when that file can
\* be parsed), in whatever order the loads completed.
C23_LatestLoadWins ==
    (/\ loads = <<>>
     /\ Has(lastCall, "file")
     /\ docType(lastCall.file) = "pdf"
     /\ lastCall.file.fault = "none")
    => /\ document # Null
       /\ document.file = lastCall.file
       /\ pdfProxy = lastCall.file

\* C24: the zoom of a loaded document is always within 0.5 .. 3.0 (2 .. 12
\* quarters); a setZoom with a value outside that range leaves the document
\* as it is, and zoomIn at 3.0 and zoomOut at 0.5 leave the zoom there.
C24_ZoomBounded ==
    /\ [](document # Null => document.zoom4 \in 2..12)
    /\ [][/\ (\E zoom4 \in ZoomInputs \ (2..12) : SetZoom(zoom4))
             => document' = document
          /\ (document # Null /\ document.zoom4 = 12 /\ zoomIn)
             => document'.zoom4 = 12
          /\ (document # Null /\ document.zoom4 = 2 /\ zoomOut)
             => document'.zoom4 = 2]_vars

\* the zoom at its upper bound while another load is on its way
C24_Witness ==
    /\ document # Null
    /\ document.zoom4 = 12
    /\ loads # <<>>


\* C25: the pan offset keeps the rendered page inside the viewport for the
\* canvas size of the current zoom: -max(0, canvas width - viewport width)
\* <= pan.x <= 0 and likewise for y, also after a zoom-out that follows a pan
\* made at a larger zoom.
C25_PanBounded ==
    LET maxX == Max(0, canvasSize.width - Viewport.width)
        maxY == Max(0, canvasSize.height - Viewport.height)
    IN /\ -maxX <= panOffset.x /\ panOffset.x <= 0
       /\ -maxY <= panOffset.y /\ panOffset.y <= 0


\* C26: a tool change leaves every annotation unchanged and merges only the
\* given fields into the tool descriptor; an annotation that is committed
\* carries the colour and the size of the tool descriptor of that moment.
C26_ToolAppliesToNew ==
    [][/\ \A partial \in ToolPartials :
             SetTool(partial) =>
                 /\ annotations' = annotations
                 /\ \A f \in {"type", "color", "size"} :
                        currentTool'[f] = IF Has(partial, f) THEN partial[f]
                                          ELSE currentTool[f]
       /\ \A i \in (Len(annotations) + 1)..Len(annotations') :
             /\ annotations'[i].color = currentTool.color
             /\ annotations'[i].size = currentTool.size]_vars

\* a record that kept its colour and size through a later tool change
C26_Witness ==
    \E i \in 1..Len(annotations) :
        /\ annotations[i].color = "#22c55e"
        /\ annotations[i].size = 1
        /\ currentTool.color = "#3b82f6"
        /\ currentTool.size = 4


\* the ids of a list, in the order of the list
IdSeq(list) == [i \in 1..Len(list) |-> list[i].id]

\* C27: the list of a page holds exactly the store's records of that page
\* in the order of the store, and a step changes the list of a page only by
\* dropping records and by appending new ones: the records it keeps stay in
\* their order and the records it gains come after them.
C27_PageOrderStable ==
    /\ [](\A page \in 1..Pages :
            LET list == getAnnotationsForPage(annotations, page)
                at == {i \in 1..Len(annotations) :
                          annotations[i].page = page}
            IN /\ Len(list) = Cardinality(at)
               /\ \A k \in 1..Len(list) :
                     \E i \in at :
                        /\ list[k] = annotations[i]
                        /\ Cardinality({j \in at : j < i}) = k - 1)
    /\ [][\A page \in 1..Pages :
            LET before == getAnnotationsForPage(annotations, page)
                after == getAnnotationsForPage(annotations', page)
                kept == SelectSeq(after, LAMBDA a : a.id \in Ids(before))
                gained == SelectSeq(after, LAMBDA a : a.id \notin Ids(before))
                left == SelectSeq(before, LAMBDA a : a.id \in Ids(after))
            IN /\ after = kept \o gained
               /\ IdSeq(kept) = IdSeq(left)]_vars


\* C28: a single pointer-up adds at most one annotation to the store, in
\* every reachable state of the session.
C28_OneAddPerPointerUp ==
    [][MouseUp => Len(annotations') <= Len(annotations) + 1]_vars


\* C29: with the select tool, a pointer-down whose hit test finds A selects
\* A and starts a drag with the pointer point as anchor and A's origin as
\* original position; a pointer-down that hits nothing clears the selection
\* and leaves an idle layer idle; neither changes the store.
C29_SelectPointerDown ==
    [][\A e \in DownPoints :
          LET point == getCanvasCoordinates(e)
              A == findAnnotationAtPoint(layerAnnotations,
                       document.currentPage, point)
          IN (currentTool.type = "select"
                  /\ \E prompted \in PromptResults : MouseDown(e, prompted))
             => /\ annotations' = annotations
                /\ IF A # Null
                   THEN /\ selectedAnnotation' = A.id
                        /\ isDragging'
                        /\ dragStart' = point
                        /\ originalPosition' = Pt(A.x, A.y)
                   ELSE /\ selectedAnnotation' = NoId
                        /\ Idle => Idle']_vars

\* a select pointer-down has hit the second record and started its drag
C29_Witness ==
    /\ currentTool.type = "select"
    /\ pressed
    /\ Len(annotations) = 2
    /\ selectedAnnotation = annotations[2].id
    /\ isDragging
    /\ dragStart = Pt(0, 0)
    /\ originalPosition = Pt(annotations[2].x, annotations[2].y)

\* C30: an eraser pointer-down that hits A, the selected annotation, leaves
\* nothing selected; one that hits another annotation than the selected one,
\* or nothing, leaves the selection as it is.
C30_EraserSelection ==
    [][\A e \in DownPoints :
          LET A == findAnnotationAtPoint(layerAnnotations,
                       document.currentPage, getCanvasCoordinates(e))
          IN (currentTool.type = "eraser"
                  /\ \E prompted \in PromptResults : MouseDown(e, prompted))
             => IF A # Null /\ A.id = selectedAnnotation
                THEN selectedAnnotation' = NoId
                ELSE selectedAnnotation' = selectedAnnotation]_vars

(* C40: in every state overlapping loads of PDFs and of other files can     *)
(* reach, the PDF proxy is the one made from the file of the active         *)
(* document when that document is a PDF, and there is none when there is    *)
(* no document or when the document is no PDF.                              *)
C40_ProxyMatchesDocument ==
    IF document = Null THEN pdfProxy = Null
    ELSE IF document.type = "pdf" THEN pdfProxy = document.file
    ELSE pdfProxy = Null

\* a PDF whose parsing ended after a later load of a .docx file ran
C40_Witness ==
    /\ document # Null
    /\ document.type = "pdf"
    /\ pdfProxy = document.file
    /\ lastCall = [op |-> "load", file |-> OtherFile("w.docx", ".docx")]

\* a .docx document shown after a PDF, with the parsing of a PDF pending
C40_WitnessOther ==
    /\ document # Null
    /\ document.type = "docx"
    /\ pdfProxy = Null
    /\ loads # <<>>
(* C35: once a load has put a document in place, every record of the store *)
(* is on a page from 1 to the number of pages of that document, so that an  *)
(* export never asks the file for a page it does not have.                  *)
C35_StoreWithinLoadedDocument ==
    (Has(lastCall, "file") /\ document # Null /\ document.file = lastCall.file)
    => \A i \in 1..Len(annotations) :
           annotations[i].page \in 1..document.pages

(* C36: a load that completes and puts its document in place leaves the    *)
(* view fresh: zoom 1, page 1 and no pan offset.                            *)
C36_FreshViewAfterLoad ==
    [][\A i \in 1..MaxLoads :
           (i \in 1..Len(loads) /\ loads[i].fault = "none" /\ CompleteLoad(i))
           => /\ document'.zoom4 = 4
              /\ document'.currentPage = 1
              /\ panOffset' = Pt(0, 0)]_vars
\* what a load that fails leaves behind
FailedLoadOutcome ==
    /\ UNCHANGED <<document, pdfProxy, storeVars>>
    /\ error' # Null
    /\ ~loading'

(* C39: a load that fails, because the PDF cannot be parsed or because the *)
(* file is of no supported type, leaves the document, the proxy and the     *)
(* store as they were, sets an error message and ends with loading false;   *)
(* the start of the next load clears the message.                           *)
C39_FailedLoadKeepsState ==
    [][/\ \A i \in 1..MaxLoads :
              (i \in 1..Len(loads) /\ loads[i].fault = "parse"
                                   /\ CompleteLoad(i))
              => FailedLoadOutcome
       /\ \A file \in ReloadFiles :
              /\ (docType(file) = "none" /\ RequestLoad(file))
                 => FailedLoadOutcome
              /\ (docType(file) = "pdf" /\ RequestLoad(file))
                 => error' = Null]_vars

\* a PDF that could not be parsed, over a document with a record in the store
C39_Witness ==
    /\ error = [message |-> "Invalid PDF structure"]
    /\ ~loading
    /\ document # Null
    /\ pdfProxy = document.file
    /\ annotations # <<>>
(* C31: in every reachable state the selection is none or the id of a      *)
(* record that is in the store, whatever pointer events, tool changes and   *)
(* page changes came before.                                                *)
C31_SelectionInStore ==
    selectedAnnotation = NoId \/ selectedAnnotation \in Ids(annotations)

\* a pointer-down of the eraser with a record selected, on another page than
\* the one the record is on
C31_Witness ==
    /\ currentTool.type = "eraser"
    /\ pressed
    /\ selectedAnnotation # NoId
    /\ \E i \in 1..Len(annotations) :
           /\ annotations[i].id = selectedAnnotation
           /\ annotations[i].page # document.currentPage
\* the text pointer-downs of a step, with the point and what the user typed
TextPointerDown(e, prompted) ==
    /\ currentTool.type = "text"
    /\ MouseDown(e, prompted)

\* the store after a text pointer-down: one more text record, made of the
\* point, the page, the typed content and the tool, when content was typed
C32_TextAdded ==
    [][\A e \in DownPoints, prompted \in PromptResults :
          TextPointerDown(e, prompted) =>
              IF Has(prompted, "text") /\ prompted.text # ""
              THEN /\ Len(annotations') = Len(annotations) + 1
                   /\ SubSeq(annotations', 1, Len(annotations)) = annotations
                   /\ SameBut(annotations'[Len(annotations')],
                              [type |-> "text",
                               page |-> document.currentPage,
                               x |-> getCanvasCoordinates(e).x,
                               y |-> getCanvasCoordinates(e).y,
                               content |-> prompted.text,
                               color |-> currentTool.color,
                               size |-> currentTool.size,
                               id |-> NoId], {"id"})
              ELSE annotations' = annotations]_vars

\* a text pointer-down does not make the layer draw or highlight
C32_NoGestureEntered ==
    [][\A e \in DownPoints, prompted \in PromptResults :
          TextPointerDown(e, prompted) =>
              /\ ~isDrawingRef => ~isDrawingRef'
              /\ ~isHighlighting => ~isHighlighting']_vars

(* C32: a pointer-down of the text tool with typed content adds exactly one *)
(* text record with that content at the pointer's point, on the current     *)
(* page, in the tool's colour and size; with no content, or a cancelled     *)
(* prompt, it leaves the store as it is; in both cases the layer does not   *)
(* start drawing or highlighting.                                           *)
C32_TextPointerDown == C32_TextAdded /\ C32_NoGestureEntered
\* the box with the corners a and p
BoxOf(a, p) ==
    [x |-> IF a.x <= p.x THEN a.x ELSE p.x,
     y |-> IF a.y <= p.y THEN a.y ELSE p.y,
     width |-> IF a.x <= p.x THEN p.x - a.x ELSE a.x - p.x,
     height |-> IF a.y <= p.y THEN p.y - a.y ELSE a.y - p.y]

\* the live rectangle after a pointer-move while highlighting
C33_LiveRectangle ==
    [][\A e \in Corners :
          (isHighlighting /\ highlightStart # Null /\ MouseMove(e))
          => currentHighlight' = BoxOf(highlightStart, getCanvasCoordinates(e))]_vars

\* the same of the moves that no grabbed record takes
C33_LiveRectangleUnlessDragging ==
    [][\A e \in Corners :
          (isHighlighting /\ highlightStart # Null /\ ~isDragging
                          /\ MouseMove(e))
          => currentHighlight' = BoxOf(highlightStart, getCanvasCoordinates(e))]_vars

\* the live rectangle has no negative side
C33_NonNegative ==
    currentHighlight # Null
    => currentHighlight.width >= 0 /\ currentHighlight.height >= 0

\* a highlight that a pointer-up commits is the live rectangle
C33_Committed ==
    [][MouseUp =>
          \A i \in (Len(annotations) + 1)..Len(annotations') :
              annotations'[i].type = "highlight" =>
                  [x |-> annotations'[i].x, y |-> annotations'[i].y,
                   width |-> annotations'[i].width,
                   height |-> annotations'[i].height] = currentHighlight]_vars

(* C33: while highlighting from the anchor a, a pointer-move to p makes the *)
(* live rectangle the box x = min(a.x, p.x), y = min(a.y, p.y),             *)
(* width = |p.x - a.x|, height = |p.y - a.y|; its sides are never negative  *)
(* in any of the four directions, and the highlight that is committed is    *)
(* this box.                                                                *)
C33_HighlightNormalized ==
    /\ C33_LiveRectangle
    /\ []C33_NonNegative
    /\ C33_Committed
\* the estimated bounds of a record, stated on their own
InStatedBounds(point, a) ==
    \/ /\ a.type = "text"
       /\ a.x <= point.x
       /\ point.x <= a.x + Len(a.content) * a.size * 6
       /\ a.y - a.size * 12 <= point.y
       /\ point.y <= a.y
    \/ /\ a.type = "highlight"
       /\ a.x <= point.x
       /\ point.x <= a.x + (IF "width" \in DOMAIN a THEN a.width ELSE 100)
       /\ a.y <= point.y
       /\ point.y <= a.y + (IF "height" \in DOMAIN a THEN a.height ELSE 20)

(* C34: the hit test returns a record only if the record is on the given   *)
(* page and the point is within its bounds, edges included: for a text      *)
(* x in [x, x + len(content) * size * 6] and y in [y - size * 12, y], for a *)
(* highlight x in [x, x + width] and y in [y, y + height], with 100 and 20  *)
(* for a width and a height that are not stated; it returns nothing exactly *)
(* when no text and no highlight of the page contains the point.            *)
C34_HitWithinBounds ==
    hitPoint # Null =>
        LET page == document.currentPage
            containing == {i \in 1..Len(annotations) :
                              /\ annotations[i].page = page
                              /\ InStatedBounds(hitPoint, annotations[i])}
        IN /\ result # Null
              => \E i \in containing : annotations[i] = result
           /\ result = Null <=> containing = {}

\* a hit on the far corner of a highlight that states no width and height
C34_Witness ==
    /\ hitPoint = Pt(120, 60)
    /\ result # Null
    /\ result.type = "highlight"
    /\ ~Has(result, "width")

\* no hit one unit beyond the far edge of a text
C34_WitnessOutside ==
    /\ hitPoint = Pt(23, 18)
    /\ result = Null
    /\ \E i \in 1..Len(annotations) :
           annotations[i].type = "text"
           /\ annotations[i].page = document.currentPage
\* the number of operations one record accounts for
StatedOps(a) ==
    CASE a.type = "text" -> IF a.content # "" THEN 1 ELSE 0
      [] a.type = "highlight" -> 1
      [] a.type = "drawing" -> Len(a.points) - 1

RECURSIVE SumStatedOps(_)
SumStatedOps(list) ==
    IF list = <<>> THEN 0 ELSE StatedOps(Head(list)) + SumStatedOps(Tail(list))

(* C37: the export visits each page that has a record once and draws each  *)
(* record once, on the page with index page - 1 and against the height of   *)
(* that page; a page without records gets no operation, and the number of   *)
(* operations is the number of texts with content plus the number of        *)
(* highlights plus, for each drawing, the number of its points less one.    *)
C37_ExportOncePerPage ==
    Has(lastCall, "heights") =>
        LET ops == result.ops
            heights == lastCall.heights
        IN /\ Len(ops) = SumStatedOps(annotations)
           /\ \A i, j \in 1..Len(ops) : i < j => ops[i].page <= ops[j].page
           /\ \A page \in 1..Pages :
                  SelectSeq(ops, LAMBDA o : o.page = page)
                  = drawPage(getAnnotationsForPage(annotations, page), page,
                             heights[page])

\* an export of records of both pages of a file whose pages differ in height
C37_Witness ==
    /\ Has(lastCall, "heights")
    /\ lastCall.heights[1] = 600
    /\ lastCall.heights[2] = 800
    /\ Len(result.ops) = 3
    /\ \E i, j \in 1..Len(annotations) :
           /\ annotations[i].page = 1 /\ annotations[i].type = "highlight"
           /\ annotations[j].page = 2 /\ annotations[j].type = "drawing"
    /\ result.ops[1].page = 1
    /\ result.ops[3].page = 2
\* a step after which the effect redraws the canvas
EffectRedraws == redrawInputs' # redrawInputs

\* a pointer-move that takes the draw branch, which redraws
DrawMoveRedraws ==
    /\ currentPathRef # <<>>
    /\ Len(currentPathRef') = Len(currentPathRef) + 1

\* the records of the current page, one painting operation each, in the
\* order of the store
StatedCommitted ==
    LET list == getAnnotationsForPage(annotations, document.currentPage)
    IN [k \in 1..Len(list) |-> Head(paintAnnotation(list[k]))]

\* the live preview of the gestures in progress
StatedPreview ==
    (IF isHighlighting /\ currentHighlight # Null
     THEN <<paintCurrentHighlight>> ELSE <<>>)
    \o (IF isDrawingRef /\ currentTool.type = "draw"
           /\ Len(currentPathRef) > 1
        THEN <<paintCurrentPath>> ELSE <<>>)

(* C38: every redraw paints the committed annotations of the current page  *)
(* in the order they were added and then, while a gesture is in progress,   *)
(* its live preview on top: the path while drawing, the rectangle while     *)
(* highlighting.                                                            *)
C38_RedrawPaintsAll ==
    [][/\ DrawMoveRedraws => redrawWithPath' = StatedCommitted' \o StatedPreview'
       /\ (EffectRedraws /\ ~DrawMoveRedraws)
          => redrawCanvas' = StatedCommitted' \o StatedPreview']_vars

\* the same of the redraws outside a drawing gesture
C38_RedrawOutsideDrawing ==
    [][/\ DrawMoveRedraws => redrawWithPath' = StatedCommitted' \o StatedPreview'
       /\ (EffectRedraws /\ ~DrawMoveRedraws
             /\ ~(isDrawingRef' /\ Len(currentPathRef') > 1))
          => redrawCanvas' = StatedCommitted' \o StatedPreview']_vars
============================================================================
